---------------------------- MODULE Spec2Model ----------------------------
(***************************************************************************)
(* Model of the audit scripts of TD_DOCKER_2025:                           *)
(*   - run-all-tests.ps1, the suite aggregator            (SpecSuite)      *)
(*   - the scored category scripts (security, environment, multi-stage,    *)
(*     orchestration, API functional)                     (SpecCategory)   *)
(*   - the capabilities audit and the capability rules    (SpecCaps)       *)
(* Scores are kept as integers: a percentage with one decimal is held in   *)
(* tenths (83.3 is 833), a capability score in half points (0.5 is 1).     *)
(***************************************************************************)
EXTENDS Integers, Sequences, FiniteSets, TLC

VARIABLES
    \* ---- run-all-tests.ps1 ----
    StopOnFailure,   \* the -StopOnFailure switch
    testIndex,       \* position of the foreach over $Script:TestFiles (1-based)
    suiteResults,    \* $Script:TestSuite.Results
    suiteRuns,       \* what each iteration met: file found or not, outcome of the invocation
    suitePc,         \* "loop", "summary", "exit", "done"
    percentage,      \* $percentage of Write-TestSummary, in tenths
    suiteExit,       \* exit code of run-all-tests.ps1
    \* ---- a scored category script ----
    script,          \* which script runs: "security", "environment", "multistage",
                     \* "orchestration", "api"
    facts,           \* what target resolution finds (numbers of containers, Dockerfiles,
                     \* images; presence of the .env file and of the compose file)
    catPos,          \* position in the script's sequence of checks (1-based)
    TestResults,     \* $Script:TestResults
    catPc,           \* "resolve", "run", "report", "hardfail", "done"
    totalPercentage, \* $totalPercentage of the final report, in tenths
    catExit,         \* exit code of the category script
    \* ---- the capabilities audit and the capability rules ----
    capMode,         \* "script": the capabilities audit runs over its three services;
                     \* "caps-rules": Test-ContainerCapabilities is applied to a
                     \* service; "security-rules": the security audit's
                     \* Test-Capabilities is applied to a container
    capsPos,         \* which of the three services is tested next (1-based)
    capsResults,     \* $Results of the capabilities audit
    capsTotals,      \* $TotalScore (half points) and $TotalMaxScore (points)
    GlobalPercentage,\* $GlobalPercentage
    capsPc,          \* "services", "report", "done"; "rules" before a rule is applied
    capsExit,        \* exit code of the capabilities audit
    ruleEval,        \* the last application of a capability rule: its inputs, the
                     \* credit of each check and the verdict
    containerState,  \* the packages installed in the containers on top of their
                     \* images, as <<service, package>> pairs: before the audit
                     \* started and now
    \* ---- single check functions of the audits ----
    checkPc,         \* "apply" before a check function is applied, then "done";
                     \* "tests" and "report" while the non-root users script runs
    checkEval,       \* the application: which function, its inputs, what it returned
    userResults,     \* $Results of the non-root users script: the values returned
                     \* for api, frontend and db, in the order they were tested
    userExit,        \* exit code of the non-root users script
    \* ---- the API (Express application) serving one request ----
    apiReq,          \* the request: method, path (its segments), kind of body
    dbUp,            \* whether the database answers queries
    apiPc,           \* the middleware the request is at; "sent" once a response is sent
    apiErr,          \* the error passed to next(error), if any
    apiRes,          \* the response: status and body
    dbQueries,       \* the queries sent to the database while serving the request
    \* ---- build-and-deploy.ps1 and tests/test-security-scan.ps1 ----
    deployMode,      \* "pipeline": build-and-deploy.ps1 runs; "scan": the scan script
                     \* runs on its own
    deployFlags,     \* the switches -SkipScan, -SkipPush, -SkipDeploy
    deployPc,        \* the step the pipeline is at; "done" once the script has ended
    deployImage,     \* position of the foreach over $Script:Config.Images (1-based)
    deployLog,       \* the steps carried out so far, in order
    deployOutcomes,  \* for each entry of deployLog, whether the step's command
                     \* succeeded
    deployExit,      \* exit code of the script that runs
    scanRun,         \* the last run of the scan script: what it met and what it gave
    \* ---- the frontend: ItemsList.vue and the useItems composable ----
    uiMounted,       \* whether the component is mounted
    uiItems,         \* items.value
    uiLoading,       \* loading.value
    uiError,         \* error.value: <<>> for null, <<message>> for a message
    uiPending,       \* the fetchItems calls that have not settled yet
    uiCalls,         \* how many fetchItems calls were started
    uiEvent          \* what happened last: a call started or settled, and with what

suiteVars == <<StopOnFailure, testIndex, suiteResults, suiteRuns, suitePc, percentage, suiteExit>>

catVars == <<script, facts, catPos, TestResults, catPc, totalPercentage, catExit>>

capsVars == <<capMode, capsPos, capsResults, capsTotals, GlobalPercentage, capsPc,
              capsExit, ruleEval, containerState>>

checkVars == <<checkPc, checkEval, userResults, userExit>>

apiVars == <<apiReq, dbUp, apiPc, apiErr, apiRes, dbQueries>>

deployVars == <<deployMode, deployFlags, deployPc, deployImage, deployLog,
                deployOutcomes, deployExit,
                scanRun>>

uiVars == <<uiMounted, uiItems, uiLoading, uiError, uiPending, uiCalls, uiEvent>>

vars == <<suiteVars, catVars, capsVars, checkVars, apiVars, deployVars, uiVars>>

-----------------------------------------------------------------------------
(***************************************************************************)
(* PowerShell semantics shared by the scripts                              *)
(***************************************************************************)

\* (pipeline | Where-Object { ... }).Count : an empty pipeline is $null, whose
\* Count is 0; a pipeline of exactly one object is that object, not an array,
\* so .Count is the object's own Count (for a hashtable, its number of keys);
\* two or more objects are an array.
PipelineCount(s) ==
    IF Len(s) = 0 THEN 0
    ELSE IF Len(s) = 1 THEN Cardinality(DOMAIN s[1])
    ELSE Len(s)

\* [math]::Round(num/den): to the nearest integer, midpoints to even
RoundHalfEven(num, den) ==
    LET q == num \div den
        r == num % den
    IN  IF 2 * r < den THEN q
        ELSE IF 2 * r > den THEN q + 1
        ELSE IF q % 2 = 0 THEN q ELSE q + 1

\* [math]::Round((a / b) * 100, 1), in tenths
RoundPercent1(a, b) == RoundHalfEven(a * 1000, b)

\* the parts of the model that a specification does not run stay as they are
CatIdle ==
    /\ script = "none"
    /\ facts = [containers |-> 0, dockerfiles |-> 0, images |-> 0,
                envFile |-> FALSE, composeFile |-> FALSE]
    /\ catPos = 1
    /\ TestResults = [TotalTests |-> 0, Passed |-> 0, Failed |-> 0, Steps |-> <<>>]
    /\ catPc = "idle"
    /\ totalPercentage = 0
    /\ catExit = 0

CapsIdle ==
    /\ capMode = "none"
    /\ capsPos = 1
    /\ capsResults = <<>>
    /\ capsTotals = [TotalScore |-> 0, TotalMaxScore |-> 0]
    /\ GlobalPercentage = 0
    /\ capsPc = "idle"
    /\ capsExit = 0
    /\ ruleEval = [audit |-> "none"]
    /\ containerState = [before |-> {}, now |-> {}]

ChecksIdle ==
    /\ checkPc = "idle"
    /\ checkEval = [check |-> "none"]
    /\ userResults = <<>>
    /\ userExit = 0

ApiIdle ==
    /\ apiReq = [method |-> "none"]
    /\ dbUp = TRUE
    /\ apiPc = "idle"
    /\ apiErr = [name |-> "none"]
    /\ apiRes = [status |-> 0]
    /\ dbQueries = <<>>

DeployIdle ==
    /\ deployMode = "none"
    /\ deployFlags = [SkipScan |-> FALSE, SkipPush |-> FALSE, SkipDeploy |-> FALSE]
    /\ deployPc = "idle"
    /\ deployImage = 1
    /\ deployLog = <<>>
    /\ deployOutcomes = <<>>
    /\ deployExit = 0
    /\ scanRun = [ran |-> FALSE]

UiIdle ==
    /\ uiMounted = FALSE
    /\ uiItems = <<>>
    /\ uiLoading = FALSE
    /\ uiError = <<>>
    /\ uiPending = {}
    /\ uiCalls = 0
    /\ uiEvent = [kind |-> "none"]

SuiteIdle ==
    /\ StopOnFailure = FALSE
    /\ testIndex = 1
    /\ suiteResults = <<>>
    /\ suiteRuns = <<>>
    /\ suitePc = "idle"
    /\ percentage = 0
    /\ suiteExit = 0

-----------------------------------------------------------------------------
(***************************************************************************)
(* run-all-tests.ps1                                                       *)
(***************************************************************************)

TestFiles == <<
    [Name |-> "Non-Root Users",               File |-> "test-nonroot-users.ps1"],
    [Name |-> "Security Capabilities",        File |-> "test-security-caps.ps1"],
    [Name |-> "Security Audit",               File |-> "test-security.ps1"],
    [Name |-> "Security Scan (Trivy)",        File |-> "test-security-scan.ps1"],
    [Name |-> "API Functional Tests",         File |-> "test-api.ps1"],
    [Name |-> "Environment Configuration",    File |-> "test-environment.ps1"],
    [Name |-> "Multi-Stage Builds",           File |-> "test-multistage.ps1"],
    [Name |-> "Docker Compose Orchestration", File |-> "test-orchestration.ps1"] >>

\* exit codes a category script can end with
ExitCodes == {0, 1, 2}

FailedStatus(exitCode) ==
    IF exitCode = 1 THEN "FAILED (Exit: 1)" ELSE "FAILED (Exit: 2)"

\* $passed = $exitCode -eq 0
ExitPassed(exitCode) == exitCode = 0

\* the result appended for a missing script file
NotFoundResult(cfg) ==
    [Name |-> cfg.Name, Passed |-> FALSE, Status |-> "FILE NOT FOUND", ExitCode |-> -1]

\* the result appended after an invocation that ended with $exitCode
RunResult(cfg, exitCode) ==
    IF ExitPassed(exitCode)
    THEN [Name |-> cfg.Name, Passed |-> TRUE, Status |-> "PASSED", ExitCode |-> exitCode]
    ELSE [Name |-> cfg.Name, Passed |-> FALSE, Status |-> FailedStatus(exitCode),
          ExitCode |-> exitCode]

\* the result appended when the invocation throws
ErrorResult(cfg) ==
    [Name |-> cfg.Name, Passed |-> FALSE, Status |-> "ERROR", ExitCode |-> -1]

IsPassed(r) == r.Passed
IsFailed(r) == ~r.Passed

\* end of one iteration that did not break: $testIndex++ and the foreach test
NextIteration ==
    /\ testIndex' = testIndex + 1
    /\ suitePc' = IF testIndex = Len(TestFiles) THEN "summary" ELSE "loop"

\* break
BreakLoop ==
    /\ testIndex' = testIndex
    /\ suitePc' = "summary"

\* what one iteration met: the category, whether its file was found, and how
\* the invocation ended ("none": not invoked, "exit", "throw")
Run(cat, found, outcome, exitCode) ==
    [cat |-> cat, found |-> found, outcome |-> outcome, exitCode |-> exitCode]

\* the missing-file branch ends with $testIndex++ ; continue
AfterMissingFile_break == BreakLoop
AfterMissingFile == NextIteration

\* if (-not (Test-Path $testFile)) { ... ; $testIndex++ ; continue }
SuiteMissingFile ==
    /\ suitePc = "loop"
    /\ suiteResults' = Append(suiteResults, NotFoundResult(TestFiles[testIndex]))
    /\ suiteRuns' = Append(suiteRuns, Run(testIndex, FALSE, "none", 0))
    /\ AfterMissingFile
    /\ UNCHANGED <<StopOnFailure, percentage, suiteExit, catVars, capsVars, checkVars,
                   apiVars, deployVars,
                   uiVars>>

\* the script ran and ended with exit code 0
SuiteRunPassed ==
    /\ suitePc = "loop"
    /\ \E exitCode \in ExitCodes :
        /\ ExitPassed(exitCode)
        /\ suiteResults' = Append(suiteResults, RunResult(TestFiles[testIndex], exitCode))
        /\ suiteRuns' = Append(suiteRuns, Run(testIndex, TRUE, "exit", exitCode))
    /\ NextIteration
    /\ UNCHANGED <<StopOnFailure, percentage, suiteExit, catVars, capsVars, checkVars,
                   apiVars, deployVars,
                   uiVars>>

\* does a failed or throwing invocation leave the loop
StopsAfterFailure_never == FALSE
StopsAfterFailure == StopOnFailure

\* the script ran and ended with a non-zero exit code
SuiteRunFailed ==
    /\ suitePc = "loop"
    /\ \E exitCode \in ExitCodes :
        /\ ~ExitPassed(exitCode)
        /\ suiteResults' = Append(suiteResults, RunResult(TestFiles[testIndex], exitCode))
        /\ suiteRuns' = Append(suiteRuns, Run(testIndex, TRUE, "exit", exitCode))
    /\ IF StopsAfterFailure THEN BreakLoop ELSE NextIteration
    /\ UNCHANGED <<StopOnFailure, percentage, suiteExit, catVars, capsVars, checkVars,
                   apiVars, deployVars,
                   uiVars>>

\* the invocation threw (catch block)
SuiteRunError ==
    /\ suitePc = "loop"
    /\ suiteResults' = Append(suiteResults, ErrorResult(TestFiles[testIndex]))
    /\ suiteRuns' = Append(suiteRuns, Run(testIndex, TRUE, "throw", 0))
    /\ IF StopsAfterFailure THEN BreakLoop ELSE NextIteration
    /\ UNCHANGED <<StopOnFailure, percentage, suiteExit, catVars, capsVars, checkVars,
                   apiVars, deployVars,
                   uiVars>>

\* $percentage of Write-TestSummary
GlobalScore(results) ==
    LET totalTests == Len(results)
        passedTests == PipelineCount(SelectSeq(results, IsPassed))
    IN  IF passedTests = totalTests THEN 1000
        ELSE RoundPercent1(passedTests, totalTests)

WriteTestSummary ==
    /\ suitePc = "summary"
    /\ percentage' = GlobalScore(suiteResults)
    /\ suitePc' = "exit"
    /\ UNCHANGED <<StopOnFailure, testIndex, suiteResults, suiteRuns, suiteExit, catVars,
                   capsVars, checkVars, apiVars, deployVars,
                   uiVars>>

\* exit 0 / exit 1 from $failedCount
SuiteExitCode_byPassedCount(results) ==
    IF PipelineCount(SelectSeq(results, IsPassed)) = Len(results) THEN 0 ELSE 1
SuiteExitCode(results) ==
    IF PipelineCount(SelectSeq(results, IsFailed)) = 0 THEN 0 ELSE 1

SuiteExit ==
    /\ suitePc = "exit"
    /\ suiteExit' = SuiteExitCode(suiteResults)
    /\ suitePc' = "done"
    /\ UNCHANGED <<StopOnFailure, testIndex, suiteResults, suiteRuns, percentage, catVars,
                   capsVars, checkVars, apiVars, deployVars,
                   uiVars>>

SuiteInit ==
    /\ StopOnFailure \in BOOLEAN
    /\ testIndex = 1
    /\ suiteResults = <<>>
    /\ suiteRuns = <<>>
    /\ suitePc = "loop"
    /\ percentage = "unset"
    /\ suiteExit = "running"
    /\ CatIdle
    /\ CapsIdle
    /\ ChecksIdle
    /\ ApiIdle
    /\ DeployIdle
    /\ UiIdle

SuiteNext ==
    \/ SuiteMissingFile
    \/ SuiteRunPassed
    \/ SuiteRunFailed
    \/ SuiteRunError
    \/ WriteTestSummary
    \/ SuiteExit

SpecSuite == SuiteInit /\ [][SuiteNext]_vars

-----------------------------------------------------------------------------
(***************************************************************************)
(* Properties of run-all-tests.ps1                                         *)
(***************************************************************************)

SuiteLoopOver == suitePc \in {"summary", "exit", "done"}

AllPassed(results) == \A i \in DOMAIN results : results[i].Passed

NumPassed(results) == Cardinality({i \in DOMAIN results : results[i].Passed})

\* x (in tenths) is a value nearest to a / b * 100
NearestTenth(x, a, b) ==
    /\ 2 * (x * b - a * 1000) <= b
    /\ 2 * (a * 1000 - x * b) <= b

\* C1: run-all-tests.ps1 exits 0 iff every recorded category is marked passed,
\* and 1 otherwise; a category is marked passed iff its script file was found
\* and its invocation ended with exit code 0.
C1_ExitZeroIffAllPassed ==
    /\ \A i \in DOMAIN suiteResults :
          suiteResults[i].Passed <=>
             (suiteRuns[i].found /\ suiteRuns[i].outcome = "exit" /\ suiteRuns[i].exitCode = 0)
    /\ suitePc = "done" =>
          /\ suiteExit \in {0, 1}
          /\ suiteExit = 0 <=> AllPassed(suiteResults)

\* a finished run whose only failure is one category among several passed ones
C1_Witness ==
    /\ suitePc = "done"
    /\ suiteExit = 1
    /\ Len(suiteResults) = Len(TestFiles)
    /\ NumPassed(suiteResults) = Len(TestFiles) - 1

\* C2: the global score is 100 iff every recorded category passed, otherwise
\* round(passed / total * 100, 1), and never above 100, for every list of
\* results (also a list with exactly one passed entry).
C2_GlobalScore ==
    suitePc \in {"exit", "done"} =>
        /\ percentage = 1000 <=> AllPassed(suiteResults)
        /\ ~AllPassed(suiteResults) =>
              NearestTenth(percentage, NumPassed(suiteResults), Len(suiteResults))
        /\ percentage <= 1000

\* C3: without -StopOnFailure a missing script file is recorded as a failed
\* result "FILE NOT FOUND" with exit code -1, the later categories are still
\* attempted, and the suite ends with one result per configured category, in
\* configured order.
C3_MissingFileRecordedAndContinued ==
    ~StopOnFailure =>
        /\ Len(suiteResults) = Len(suiteRuns)
        /\ \A i \in DOMAIN suiteRuns :
              /\ suiteRuns[i].cat = i
              /\ suiteResults[i].Name = TestFiles[i].Name
              /\ ~suiteRuns[i].found =>
                    /\ ~suiteResults[i].Passed
                    /\ suiteResults[i].Status = "FILE NOT FOUND"
                    /\ suiteResults[i].ExitCode = -1
        /\ SuiteLoopOver => Len(suiteResults) = Len(TestFiles)

\* a finished run without -StopOnFailure whose first script file was missing
\* and whose later categories ran
C3_Witness ==
    /\ ~StopOnFailure
    /\ suitePc = "done"
    /\ ~suiteRuns[1].found
    /\ \E i \in DOMAIN suiteRuns : i > 1 /\ suiteRuns[i].found
    /\ suiteResults[Len(TestFiles)].Status = "FILE NOT FOUND"

\* C4: with -StopOnFailure a missing script file is recorded as "FILE NOT FOUND"
\* and no category after it is executed or recorded.
C4_MissingFileStopsSuite ==
    StopOnFailure =>
        \A i \in DOMAIN suiteRuns :
            ~suiteRuns[i].found =>
                /\ suiteResults[i].Status = "FILE NOT FOUND"
                /\ i = Len(suiteRuns)
                /\ i = Len(suiteResults)

\* C5: with -StopOnFailure, once a category script ends with a non-zero exit
\* code or throws, no later category is executed: the results are the
\* configured categories up to and including the failing one, in order, and the
\* failing one is the last and only failed result among executed scripts.
C5_StopOnFirstFailure ==
    StopOnFailure =>
        /\ Len(suiteResults) = Len(suiteRuns)
        /\ \A i \in DOMAIN suiteRuns :
              /\ suiteRuns[i].cat = i
              /\ suiteResults[i].Name = TestFiles[i].Name
              /\ (suiteRuns[i].found /\ ~suiteResults[i].Passed) =>
                    /\ i = Len(suiteRuns)
                    /\ SuiteLoopOver

\* a run with -StopOnFailure that stopped at the third category
C5_Witness ==
    /\ StopOnFailure
    /\ suitePc = "done"
    /\ Len(suiteRuns) = 3
    /\ suiteRuns[3].found
    /\ ~suiteResults[3].Passed
    /\ suiteResults[1].Passed

-----------------------------------------------------------------------------
(***************************************************************************)
(* The scored category scripts: test-security.ps1, test-environment.ps1,   *)
(* the multi-stage audit, the orchestration audit, the API functional test *)
(***************************************************************************)

MaxContainers == 2
MaxDockerfiles == 2
MaxImages == 1

Scripts == {"security", "environment", "multistage", "orchestration", "api"}

NoFacts ==
    [containers |-> 0, dockerfiles |-> 0, images |-> 0, envFile |-> FALSE, composeFile |-> FALSE]

\* what the resolution of a script's targets can find
FactsFor(s) ==
    CASE s = "security" ->
            {[NoFacts EXCEPT !.containers = n] : n \in 0..MaxContainers}
      [] s = "environment" ->
            {[NoFacts EXCEPT !.containers = n, !.dockerfiles = d, !.envFile = e] :
                n \in 0..MaxContainers, d \in 0..MaxDockerfiles, e \in BOOLEAN}
      [] s = "multistage" ->
            {[NoFacts EXCEPT !.dockerfiles = d, !.images = i] :
                d \in 0..MaxDockerfiles, i \in 0..MaxImages}
      [] s = "orchestration" ->
            {[NoFacts EXCEPT !.composeFile = c] : c \in BOOLEAN}
      [] s = "api" -> {NoFacts}

\* one check of a script: the rule, the target it is applied to, and how its
\* outcome is decided: "any" (by what the inspection finds), "pass" / "fail"
\* (fixed by what resolution found), "ifResponse" (recorded only when the HTTP
\* request made for it succeeds)
Check(test, target, mode) == [Test |-> test, Target |-> target, mode |-> mode]

\* foreach ($t in $list) { Test-X $t }
ForEachTarget_stopsAtFirst(test, n) == [i \in 1..(IF n > 0 THEN 1 ELSE 0) |-> Check(test, i, "any")]
ForEachTarget(test, n) == [i \in 1..n |-> Check(test, i, "any")]

\* test-security.ps1, STEP 1..5
SecurityChecks(f) ==
    ForEachTarget("Non-root user", f.containers)
    \o ForEachTarget("Capabilities", f.containers)
    \o ForEachTarget("Security options", f.containers)
    \o ForEachTarget("Resource limits", f.containers)
    \o ForEachTarget("Read-only rootfs", f.containers)

\* test-environment.ps1, STEP 1..4
EnvironmentChecks(f) ==
    ForEachTarget("No secrets in Dockerfile", f.dockerfiles)
    \o << Check("Environment file exists", 1, IF f.envFile THEN "pass" ELSE "fail") >>
    \o (IF f.envFile THEN << Check("Environment file security", 1, "any") >> ELSE << >>)
    \o ForEachTarget("ENV usage", f.dockerfiles)
    \o ForEachTarget("Environment variables", f.containers)

\* multi-stage audit, STEP 1..4
MultiStageChecks(f) ==
    ForEachTarget("Multi-stage", f.dockerfiles)
    \o ForEachTarget("Alpine image", f.dockerfiles)
    \o ForEachTarget("Image size", f.images)
    \o ForEachTarget("Layer count", f.images)

\* orchestration audit, STEP 1..6
OrchestrationChecks(f) ==
    << Check("Compose file exists", 1, "pass"),
       Check("Services defined", 1, "any"),
       Check("Restart policies", 1, "any"),
       Check("Networks defined", 1, "any"),
       Check("Volumes defined", 1, "any"),
       Check("Health checks defined", 1, "any"),
       Check("Service dependencies defined", 1, "any") >>

\* the four checks made on one endpoint (1: /status, 2: /ready, 3: /items)
EndpointChecks(e) ==
    << Check("Endpoint available", e, "any"),
       Check("Response code 200", e, "any"),
       Check("Content-Type application/json", e, "any"),
       Check("Valid JSON", e, "any") >>

\* API functional test, STEP 1..6 (4: /nonexistent)
ApiChecks(f) ==
    EndpointChecks(1)
    \o EndpointChecks(2)
    \o << Check("Database healthy in ready check", 2, "ifResponse") >>
    \o EndpointChecks(3)
    \o << Check("Items returns array", 3, "ifResponse") >>
    \o << Check("Response time", 1, "any"),
          Check("Response time", 2, "any"),
          Check("Response time", 3, "any") >>
    \o << Check("Response code 404", 4, "any") >>

Checks(s, f) ==
    CASE s = "security" -> SecurityChecks(f)
      [] s = "environment" -> EnvironmentChecks(f)
      [] s = "multistage" -> MultiStageChecks(f)
      [] s = "orchestration" -> OrchestrationChecks(f)
      [] s = "api" -> ApiChecks(f)

\* the scripts that leave with exit 1 when they resolve no target
NoTargetResolved_ignored(s, f) == FALSE
NoTargetResolved(s, f) ==
    \/ s = "security" /\ f.containers = 0
    \/ s = "multistage" /\ f.dockerfiles = 0
    \/ s = "orchestration" /\ ~f.composeFile

\* Add-TestResult
AddTestResult_failedNotCounted(tr, test, target, passed) ==
    [TotalTests |-> tr.TotalTests + 1,
     Passed |-> IF passed THEN tr.Passed + 1 ELSE tr.Passed,
     Failed |-> tr.Failed,
     Steps |-> Append(tr.Steps, [Test |-> test, Target |-> target,
                                 Status |-> IF passed THEN "OK" ELSE "FAIL",
                                 Passed |-> passed])]
AddTestResult(tr, test, target, passed) ==
    [TotalTests |-> tr.TotalTests + 1,
     Passed |-> IF passed THEN tr.Passed + 1 ELSE tr.Passed,
     Failed |-> IF passed THEN tr.Failed ELSE tr.Failed + 1,
     Steps |-> Append(tr.Steps, [Test |-> test, Target |-> target,
                                 Status |-> IF passed THEN "OK" ELSE "FAIL",
                                 Passed |-> passed])]

\* $totalPercentage of the final report
TotalPercentage(tr) ==
    IF Len(tr.Steps) > 0 THEN RoundPercent1(tr.Passed, Len(tr.Steps)) ELSE 0

\* if ($totalPercentage -ge 70) { exit 0 } else { exit 1 }
CategoryExitCode_strict(p) == IF p > 700 THEN 0 ELSE 1
CategoryExitCode(p) == IF p >= 700 THEN 0 ELSE 1

\* the outcomes a check can have
Outcomes(mode) ==
    CASE mode = "pass" -> {TRUE}
      [] mode = "fail" -> {FALSE}
      [] OTHER -> BOOLEAN

\* after a check: the next one, or the final report
Advance ==
    /\ catPos' = catPos + 1
    /\ catPc' = IF catPos = Len(Checks(script, facts)) THEN "report" ELSE "run"

\* target resolution found nothing: the message and exit 1
CatResolveFail ==
    /\ catPc = "resolve"
    /\ NoTargetResolved(script, facts)
    /\ catExit' = 1
    /\ catPc' = "hardfail"
    /\ UNCHANGED <<script, facts, catPos, TestResults, totalPercentage, suiteVars,
                   capsVars, checkVars, apiVars, deployVars,
                   uiVars>>

\* target resolution: the script goes on to its steps
CatResolve ==
    /\ catPc = "resolve"
    /\ ~NoTargetResolved(script, facts)
    /\ catPc' = IF Len(Checks(script, facts)) = 0 THEN "report" ELSE "run"
    /\ UNCHANGED <<script, facts, catPos, TestResults, totalPercentage, catExit, suiteVars,
                   capsVars, checkVars, apiVars, deployVars,
                   uiVars>>

\* one Test-* call: the check is evaluated and recorded by Add-TestResult
CatRunCheck ==
    /\ catPc = "run"
    /\ LET c == Checks(script, facts)[catPos]
       IN  \E passed \in Outcomes(c.mode) :
              TestResults' = AddTestResult(TestResults, c.Test, c.Target, passed)
    /\ Advance
    /\ UNCHANGED <<script, facts, totalPercentage, catExit, suiteVars, capsVars, checkVars,
                   apiVars, deployVars,
                   uiVars>>

\* if ($response.Success) { ... Add-TestResult ... }: the request failed,
\* nothing is recorded
CatSkipCheck ==
    /\ catPc = "run"
    /\ Checks(script, facts)[catPos].mode = "ifResponse"
    /\ Advance
    /\ UNCHANGED <<script, facts, TestResults, totalPercentage, catExit, suiteVars,
                   capsVars, checkVars, apiVars, deployVars,
                   uiVars>>

\* FINAL REPORT and exit code
CatFinalReport ==
    /\ catPc = "report"
    /\ totalPercentage' = TotalPercentage(TestResults)
    /\ catExit' = CategoryExitCode(TotalPercentage(TestResults))
    /\ catPc' = "done"
    /\ UNCHANGED <<script, facts, catPos, TestResults, suiteVars, capsVars, checkVars,
                   apiVars, deployVars,
                   uiVars>>

CatInit ==
    /\ script \in Scripts
    /\ facts \in FactsFor(script)
    /\ catPos = 1
    /\ TestResults = [TotalTests |-> 0, Passed |-> 0, Failed |-> 0, Steps |-> <<>>]
    /\ catPc = "resolve"
    /\ totalPercentage = "unset"
    /\ catExit = "running"
    /\ SuiteIdle
    /\ CapsIdle
    /\ ChecksIdle
    /\ ApiIdle
    /\ DeployIdle
    /\ UiIdle

CatNext ==
    \/ CatResolveFail
    \/ CatResolve
    \/ CatRunCheck
    \/ CatSkipCheck
    \/ CatFinalReport

SpecCategory == CatInit /\ [][CatNext]_vars

-----------------------------------------------------------------------------
(***************************************************************************)
(* Properties of the scored category scripts                               *)
(***************************************************************************)

NumPassedSteps == Cardinality({i \in DOMAIN TestResults.Steps : TestResults.Steps[i].Passed})

\* C6: in each scored category script the final score is
\* round(Passed / number of recorded checks * 100, 1) (0 without any check), the
\* script exits 0 iff the score is at least 70, and 7 passed checks out of 10
\* give exactly 70.0 and exit code 0.
C6_CategoryScoreAndExit ==
    catPc = "done" =>
        /\ Len(TestResults.Steps) = 0 => totalPercentage = 0
        /\ Len(TestResults.Steps) > 0 =>
              NearestTenth(totalPercentage, NumPassedSteps, Len(TestResults.Steps))
        /\ catExit = 0 <=> totalPercentage >= 700
        /\ catExit \in {0, 1}
        /\ (NumPassedSteps = 7 /\ Len(TestResults.Steps) = 10) =>
              (totalPercentage = 700 /\ catExit = 0)

\* the security audit of two containers ended with 7 passed checks out of 10
C6_Witness ==
    /\ script = "security"
    /\ catPc = "done"
    /\ Len(TestResults.Steps) = 10
    /\ NumPassedSteps = 7
    /\ catExit = 0

\* C7: a category that resolves zero targets ends in a hard failure:
\* test-security.ps1 without a running container, the multi-stage audit without
\* a Dockerfile and the orchestration audit without a compose file exit with a
\* non-zero code before any check is recorded; and no category script exits 0
\* with zero recorded checks.
C7_ZeroTargetsHardFailure ==
    /\ (\/ script = "security" /\ facts.containers = 0
        \/ script = "multistage" /\ facts.dockerfiles = 0
        \/ script = "orchestration" /\ ~facts.composeFile) =>
            /\ catPc \in {"resolve", "hardfail"}
            /\ TestResults.Steps = << >>
            /\ TestResults.TotalTests = 0
            /\ catPc = "hardfail" => catExit = 1
    /\ catPc \in {"hardfail", "done"} =>
            (catExit = 0 => Len(TestResults.Steps) > 0)

\* the multi-stage audit found no Dockerfile and left with its hard failure
C7_Witness ==
    /\ script = "multistage"
    /\ facts.dockerfiles = 0
    /\ facts.images = 1
    /\ catPc = "hardfail"
    /\ catExit = 1

-----------------------------------------------------------------------------
(***************************************************************************)
(* Capability rules: strings                                               *)
(* The rules compare service names against patterns (-match) and test a    *)
(* prefix ('^CAP_'), so names are held as sequences of characters.         *)
(* -match and -contains ignore case; names are lower case and capability   *)
(* names upper case throughout.                                            *)
(***************************************************************************)
Str_db == <<"d", "b">>

Str_postgres == <<"p", "o", "s", "t", "g", "r", "e", "s">>

Str_api == <<"a", "p", "i">>

Str_frontend == <<"f", "r", "o", "n", "t", "e", "n", "d">>

Str_nginx == <<"n", "g", "i", "n", "x">>

Str_node == <<"n", "o", "d", "e">>

Str_api_db_sync == <<"a", "p", "i", "-", "d", "b", "-", "s", "y", "n", "c">>

Str_web == <<"w", "e", "b">>

Str_CAP_ == <<"C", "A", "P", "_">>

CHOWN == <<"C", "H", "O", "W", "N">>

SETUID == <<"S", "E", "T", "U", "I", "D">>

NET_ADMIN == <<"N", "E", "T", "_", "A", "D", "M", "I", "N">>

CAP_CHOWN == <<"C", "A", "P", "_", "C", "H", "O", "W", "N">>

CAP_DAC_OVERRIDE ==
    <<"C", "A", "P", "_", "D", "A", "C", "_", "O", "V", "E", "R", "R", "I", "D", "E">>

CAP_FOWNER == <<"C", "A", "P", "_", "F", "O", "W", "N", "E", "R">>

CAP_SETGID == <<"C", "A", "P", "_", "S", "E", "T", "G", "I", "D">>

CAP_SETUID == <<"C", "A", "P", "_", "S", "E", "T", "U", "I", "D">>

ALL == <<"A", "L", "L">>

NET_RAW == <<"N", "E", "T", "_", "R", "A", "W">>

\* $text -match $pattern, for a pattern without metacharacters: the pattern
\* occurs somewhere in the text
Matches(text, pattern) ==
    \E i \in 1..(Len(text) - Len(pattern) + 1) :
        SubSeq(text, i, i + Len(pattern) - 1) = pattern

\* $text -match '^prefix'
StartsWith(text, prefix) ==
    /\ Len(text) >= Len(prefix)
    /\ SubSeq(text, 1, Len(prefix)) = prefix

-----------------------------------------------------------------------------
(***************************************************************************)
(* What docker reports                                                     *)
(***************************************************************************)
MaxAddCaps == 2

DropLists == SUBSET {ALL, NET_RAW}

AddLists ==
    {l \in SUBSET {CHOWN, SETUID, CAP_CHOWN, CAP_SETUID, NET_ADMIN} :
        Cardinality(l) <= MaxAddCaps}

HostConfigs ==
    [CapDrop : DropLists,
     CapAdd : AddLists,
     SecurityOpt : {{}, {"no-new-privileges:true"}, {"no-new-privileges"}},
     Privileged : BOOLEAN,
     UsernsMode : {"", "host", "private"},
     Memory : {0, 536870912},
     CpuQuota : {0, 50000},
     CpuPeriod : {0, 100000},
     NanoCpus : {0, 500000000}]

\* the configurations the capabilities audit meets when it runs over its services
AuditedConfigs ==
    [CapDrop : {{}, {ALL}, {NET_RAW}},
     CapAdd : {{}, {NET_ADMIN}},
     SecurityOpt : {{}, {"no-new-privileges:true"}},
     Privileged : BOOLEAN,
     UsernsMode : {"", "host", "private"},
     Memory : {0, 536870912},
     CpuQuota : {0, 50000},
     CpuPeriod : {100000},
     NanoCpus : {0}]

\* the three services of the capabilities audit, in the order it tests them
Services == <<Str_api, Str_frontend, Str_db>>

\* names the rules are applied to
ServiceNames == {Str_api, Str_frontend, Str_db, Str_postgres, Str_api_db_sync}

ContainerNames == {Str_api, Str_frontend, Str_db, Str_postgres, Str_api_db_sync, Str_web}

-----------------------------------------------------------------------------
(***************************************************************************)
(* The capabilities audit: Test-ContainerCapabilities                      *)
(* Credits are in half points.                                             *)
(***************************************************************************)
MaxScore == 6

RequiredCaps ==
    [service \in {Str_nginx, Str_frontend, Str_postgres, Str_db, Str_node, Str_api} |->
        CASE service \in {Str_nginx, Str_frontend} -> {CAP_CHOWN, CAP_SETGID, CAP_SETUID}
          [] service \in {Str_postgres, Str_db} ->
                {CAP_CHOWN, CAP_DAC_OVERRIDE, CAP_FOWNER, CAP_SETGID, CAP_SETUID}
          [] OTHER -> {}]

\* 1. CapDrop
CapDropCredit_allOrNothing(CapDrop) ==
    IF CapDrop # {} /\ ALL \in CapDrop THEN 2 ELSE 0

CapDropCredit(CapDrop) ==
    IF CapDrop # {} /\ ALL \in CapDrop THEN 2
    ELSE IF CapDrop # {} /\ Cardinality(CapDrop) > 0 THEN 1
    ELSE 0

\* 2. CapAdd: the capability is compared as docker reports it
Justified(ServiceName, cap) ==
    \E service \in DOMAIN RequiredCaps :
        Matches(ServiceName, service) /\ cap \in RequiredCaps[service]

NotJustified(ServiceName, CapAdd) == {cap \in CapAdd : ~Justified(ServiceName, cap)}

CapAddCredit(ServiceName, CapAdd) ==
    IF CapAdd = {} \/ Cardinality(CapAdd) = 0 THEN 2
    ELSE IF NotJustified(ServiceName, CapAdd) = {} THEN 2
    ELSE 1

\* 3. SecurityOpt
SecurityOptCredit(SecurityOpt) ==
    IF SecurityOpt # {} /\ "no-new-privileges:true" \in SecurityOpt THEN 2 ELSE 0

\* 4. Privileged
PrivilegedCredit(Privileged) == IF Privileged = TRUE THEN 0 ELSE 2

\* 5. UsernsMode
UsernsCredit(UsernsMode) ==
    IF UsernsMode = "host" THEN 0
    ELSE IF UsernsMode # "" THEN 2
    ELSE 1

\* 6. resource limits
HasLimits(HostConfig) ==
    \/ HostConfig.Memory > 0
    \/ HostConfig.CpuQuota > 0 /\ HostConfig.CpuPeriod > 0

LimitsCredit(HostConfig) == IF HasLimits(HostConfig) THEN 2 ELSE 0

\* the credit of each of the six checks
Credits(ServiceName, HostConfig) ==
    [drop |-> CapDropCredit(HostConfig.CapDrop),
     add |-> CapAddCredit(ServiceName, HostConfig.CapAdd),
     securityOpt |-> SecurityOptCredit(HostConfig.SecurityOpt),
     privileged |-> PrivilegedCredit(HostConfig.Privileged),
     userns |-> UsernsCredit(HostConfig.UsernsMode),
     limits |-> LimitsCredit(HostConfig)]

Score(ServiceName, HostConfig) ==
    LET c == Credits(ServiceName, HostConfig)
    IN  c.drop + c.add + c.securityOpt + c.privileged + c.userns + c.limits

\* what the function returns; lookup is "notfound" when docker compose ps
\* gives no id, "uninspectable" when docker inspect gives nothing, else "ok"
Lookups == {"notfound", "uninspectable", "ok"}

TestContainerCapabilities(ServiceName, lookup, HostConfig) ==
    IF lookup # "ok"
    THEN [service |-> ServiceName, score |-> 0]
    ELSE [service |-> ServiceName,
          score |-> Score(ServiceName, HostConfig),
          maxScore |-> MaxScore,
          percentage |-> RoundHalfEven(Score(ServiceName, HostConfig) * 100, 2 * MaxScore)]

\* [BONUS] the probe of the effective capabilities: docker compose exec runs
\* "apk add --no-cache libcap && capsh --print" in the container, and only when
\* that fails "cat /proc/1/status"; apkAdd says whether the installation
\* succeeds. The function returns before the probe when lookup is not "ok".
EffectiveCapabilitiesProbe(ServiceName, lookup, apkAdd, installed) ==
    IF lookup = "ok" /\ apkAdd
    THEN installed \cup {<<ServiceName, "libcap">>}
    ELSE installed

\* $result.maxScore: a key the hashtable does not have reads as $null, and
\* adding $null to a number leaves the number
Member(result, key) == IF key \in DOMAIN result THEN result[key] ELSE 0

RECURSIVE SumMember(_, _)
SumMember(results, key) ==
    IF results = <<>> THEN 0
    ELSE Member(Head(results), key) + SumMember(Tail(results), key)

\* [math]::Round(($TotalScore / $TotalMaxScore) * 100), score in half points
GlobalPercent(TotalScore, TotalMaxScore) ==
    IF TotalMaxScore > 0 THEN RoundHalfEven(TotalScore * 100, 2 * TotalMaxScore) ELSE 0

CapsExitCode(p) ==
    IF p >= 80 THEN 0
    ELSE IF p >= 60 THEN 1
    ELSE 2

\* $Results += Test-ContainerCapabilities -ServiceName ...
CapsTestService ==
    /\ capMode = "script"
    /\ capsPc = "services"
    /\ \E lookup \in Lookups :
          \E HostConfig \in IF lookup = "ok" THEN AuditedConfigs
                             ELSE {CHOOSE c \in AuditedConfigs : TRUE},
             apkAdd \in IF lookup = "ok" THEN BOOLEAN ELSE {FALSE} :
             /\ capsResults' = Append(capsResults,
                                      TestContainerCapabilities(Services[capsPos], lookup,
                                                                HostConfig))
             /\ containerState' =
                   [containerState EXCEPT
                       !.now = EffectiveCapabilitiesProbe(Services[capsPos], lookup,
                                                          apkAdd, @)]
    /\ capsPos' = capsPos + 1
    /\ capsPc' = IF capsPos = Len(Services) THEN "report" ELSE "services"
    /\ UNCHANGED <<capMode, capsTotals, GlobalPercentage, capsExit, ruleEval,
                   suiteVars, catVars, checkVars, apiVars, deployVars, uiVars>>

\* the global report and the exit status
CapsGlobalReport ==
    /\ capMode = "script"
    /\ capsPc = "report"
    /\ LET TotalScore == SumMember(capsResults, "score")
           TotalMaxScore == SumMember(capsResults, "maxScore")
       IN  /\ capsTotals' = [TotalScore |-> TotalScore, TotalMaxScore |-> TotalMaxScore]
           /\ GlobalPercentage' = GlobalPercent(TotalScore, TotalMaxScore)
           /\ capsExit' = CapsExitCode(GlobalPercent(TotalScore, TotalMaxScore))
    /\ capsPc' = "done"
    /\ UNCHANGED <<capMode, capsPos, capsResults, ruleEval, containerState,
                   suiteVars, catVars, checkVars, apiVars, deployVars, uiVars>>

\* Test-ContainerCapabilities applied to a service, the credit of each check kept
CapsRuleEval ==
    /\ capMode = "caps-rules"
    /\ capsPc = "rules"
    /\ capsPc' = "done"
    /\ \E ServiceName \in ServiceNames, HostConfig \in HostConfigs, apkAdd \in BOOLEAN :
          /\ ruleEval' = [audit |-> "caps",
                          name |-> ServiceName,
                          HostConfig |-> HostConfig,
                          credits |-> Credits(ServiceName, HostConfig),
                          notJustified |-> NotJustified(ServiceName, HostConfig.CapAdd),
                          result |-> TestContainerCapabilities(ServiceName, "ok", HostConfig)]
          /\ containerState' =
                [containerState EXCEPT
                    !.now = EffectiveCapabilitiesProbe(ServiceName, "ok", apkAdd, @)]
    /\ UNCHANGED <<capMode, capsPos, capsResults, capsTotals, GlobalPercentage,
                   capsExit, suiteVars, catVars, checkVars, apiVars, deployVars, uiVars>>

-----------------------------------------------------------------------------
(***************************************************************************)
(* The security audit: Test-Capabilities                                   *)
(***************************************************************************)
expectedCaps ==
    [type \in {Str_db, Str_postgres, Str_api, Str_frontend, Str_nginx, Str_node} |->
        IF type \in {Str_db, Str_postgres}
        THEN {CAP_CHOWN, CAP_DAC_OVERRIDE, CAP_FOWNER, CAP_SETGID, CAP_SETUID}
        ELSE {}]

\* foreach ($type in $expectedCaps.Keys) { if ($Container -match $type) { ...; break } }
\* The order in which a hashtable enumerates its keys is not specified, so the
\* first key that matches can be any key that matches; "" (here <<>>) if none does.
ContainerTypes(Container) ==
    LET matching == {type \in DOMAIN expectedCaps : Matches(Container, type)}
    IN  IF matching = {} THEN {<<>>} ELSE matching

\* $normalizedCap
NormalizedCap(cap) == IF ~StartsWith(cap, Str_CAP_) THEN Str_CAP_ \o cap ELSE cap

UnexpectedCaps(containerType, capAdd) ==
    IF capAdd # {}
    THEN LET expected == IF containerType # <<>> THEN expectedCaps[containerType] ELSE {}
         IN  {cap \in capAdd : NormalizedCap(cap) \notin expected}
    ELSE {}

\* inspect is "none" when docker inspect gives nothing, "throws" when reading it
\* raises, else "ok"; probe is what grep CapEff prints in the container
TestCapabilities(Container, inspect, capDrop, capAdd, probe, containerType) ==
    IF inspect = "none"
    THEN [Test |-> <<"Capabilities", Container>>, Passed |-> FALSE,
          Reason |-> "Container not found"]
    ELSE IF inspect = "throws"
    THEN [Test |-> <<"Capabilities", Container>>, Passed |-> FALSE,
          Reason |-> "Inspection failed"]
    ELSE LET hasDropAll == ALL \in capDrop
             capAddCount == IF capAdd # {} THEN Cardinality(capAdd) ELSE 0
             unexpectedCaps == UnexpectedCaps(containerType, capAdd)
         IN  [Test |-> <<"Capabilities", Container>>,
              Passed |-> hasDropAll /\ Cardinality(unexpectedCaps) = 0,
              Reason |-> IF ~hasDropAll THEN "Missing cap_drop: ALL"
                         ELSE IF Cardinality(unexpectedCaps) > 0
                              THEN "Unexpected capabilities"
                         ELSE IF capAddCount > 0 THEN "Info: justified capabilities added"
                         ELSE "",
              Details |-> [CapDrop |-> capDrop,
                           CapAdd |-> IF capAdd # {} THEN capAdd ELSE "none",
                           Effective |-> IF probe # "" THEN probe ELSE "unknown"]]

\* Test-Capabilities applied to a container
SecRuleEval ==
    /\ capMode = "security-rules"
    /\ capsPc = "rules"
    /\ capsPc' = "done"
    /\ \E Container \in ContainerNames, inspect \in {"none", "throws", "ok"},
          capDrop \in DropLists, capAdd \in AddLists, probe \in {"", "00000000a80425fb"} :
          \E containerType \in ContainerTypes(Container) :
             ruleEval' = [audit |-> "security",
                          name |-> Container,
                          inspect |-> inspect,
                          capDrop |-> capDrop,
                          capAdd |-> capAdd,
                          containerType |-> containerType,
                          unexpectedCaps |-> UnexpectedCaps(containerType, capAdd),
                          result |-> TestCapabilities(Container, inspect, capDrop, capAdd,
                                                      probe, containerType)]
    /\ UNCHANGED <<capMode, capsPos, capsResults, capsTotals, GlobalPercentage,
                   capsExit, containerState, suiteVars, catVars, checkVars, apiVars,
                   deployVars, uiVars>>

\* Test-ResourceLimits; MemoryMB is [math]::Round($memoryLimit / 1MB, 0) and
\* CPUCores is rounded to two decimals, held in hundredths of a core
TestResourceLimits(Container, inspect, HostConfig) ==
    IF inspect = "none"
    THEN [Test |-> <<"Resource limits", Container>>, Passed |-> FALSE,
          Reason |-> <<"Container not found">>]
    ELSE IF inspect = "throws"
    THEN [Test |-> <<"Resource limits", Container>>, Passed |-> FALSE,
          Reason |-> <<"Inspection failed">>]
    ELSE LET memoryLimit == HostConfig.Memory
             cpuQuota == HostConfig.CpuQuota
             cpuPeriod == HostConfig.CpuPeriod
             nanoCpus == HostConfig.NanoCpus
             hasMemoryLimit == memoryLimit > 0
             hasCpuLimit == (cpuQuota > 0 /\ cpuPeriod > 0) \/ nanoCpus > 0
         IN  [Test |-> <<"Resource limits", Container>>,
              Passed |-> hasMemoryLimit /\ hasCpuLimit,
              Reason |-> (IF ~hasMemoryLimit THEN <<"No memory limit">> ELSE <<>>)
                         \o (IF ~hasCpuLimit THEN <<"No CPU limit">> ELSE <<>>),
              Details |-> [MemoryMB |-> IF hasMemoryLimit
                                        THEN RoundHalfEven(memoryLimit, 1048576) ELSE 0,
                           CPUCores |-> IF nanoCpus > 0
                                        THEN RoundHalfEven(nanoCpus, 10000000)
                                        ELSE IF hasCpuLimit
                                        THEN RoundHalfEven(cpuQuota * 100, cpuPeriod)
                                        ELSE 0]]

\* what docker inspect reports of a container's resource limits
LimitConfigs ==
    [Memory : {0, 536870912},
     CpuQuota : {0, 50000},
     CpuPeriod : {0, 100000},
     NanoCpus : {0, 500000000}]

\* Test-ResourceLimits applied to a container
SecLimitsEval ==
    /\ capMode = "security-rules"
    /\ capsPc = "rules"
    /\ capsPc' = "done"
    /\ \E Container \in ContainerNames, inspect \in {"none", "throws", "ok"},
          HostConfig \in LimitConfigs :
          ruleEval' = [audit |-> "security-limits",
                       name |-> Container,
                       inspect |-> inspect,
                       HostConfig |-> HostConfig,
                       result |-> TestResourceLimits(Container, inspect, HostConfig)]
    /\ UNCHANGED <<capMode, capsPos, capsResults, capsTotals, GlobalPercentage,
                   capsExit, containerState, suiteVars, catVars, checkVars, apiVars,
                   deployVars, uiVars>>

-----------------------------------------------------------------------------
CapsInit ==
    /\ capMode \in {"script", "caps-rules", "security-rules"}
    /\ capsPos = 1
    /\ capsResults = <<>>
    /\ capsTotals = [TotalScore |-> 0, TotalMaxScore |-> 0]
    /\ GlobalPercentage = 0
    /\ capsPc = IF capMode = "script" THEN "services" ELSE "rules"
    /\ capsExit = "running"
    /\ ruleEval = [audit |-> "none"]
    \* fresh containers, or containers a previous run of the audit has probed
    /\ \E installed \in {{}, {<<Services[i], "libcap">> : i \in DOMAIN Services}} :
          /\ capMode # "script" => installed = {}
          /\ containerState = [before |-> installed, now |-> installed]
    /\ SuiteIdle
    /\ CatIdle
    /\ ChecksIdle
    /\ ApiIdle
    /\ DeployIdle
    /\ UiIdle

CapsNext ==
    \/ CapsTestService
    \/ CapsGlobalReport
    \/ CapsRuleEval
    \/ SecRuleEval
    \/ SecLimitsEval

SpecCaps == CapsInit /\ [][CapsNext]_vars

-----------------------------------------------------------------------------
(***************************************************************************)
(* Properties of the capabilities audit and of the capability rules        *)
(***************************************************************************)
CapsOver == capMode = "script" /\ capsPc = "done"

\* a service that was not found or could not be inspected: its result carries
\* no percentage
ServiceMissing(result) == "percentage" \notin DOMAIN result

ServicePerfect(result) == ~ServiceMissing(result) /\ result.score = 2 * MaxScore

NumServices(P(_)) == Cardinality({i \in DOMAIN capsResults : P(capsResults[i])})

\* C8: in the capabilities audit a service that cannot be found or inspected
\* stays in the denominator: it adds 0 to the total score and its full maximum
\* (6) to the total maximum, so a run with one missing service and two perfect
\* services reports neither 100% nor exit code 0.
C8_MissingServiceInDenominator ==
    CapsOver =>
        /\ capsTotals.TotalMaxScore = MaxScore * Len(capsResults)
        /\ (NumServices(ServiceMissing) = 1 /\ NumServices(ServicePerfect) = 2)
               => (GlobalPercentage # 100 /\ capsExit # 0)

CanonicalOrBare == {{CHOWN, SETUID}, {CAP_CHOWN, CAP_SETUID}}

DatabaseName(name) == Matches(name, Str_db) \/ Matches(name, Str_postgres)

\* C9: on a container or service whose name matches db or postgres the add-list
\* {CHOWN, SETUID} is fully justified, in bare form as in CAP_ form (no
\* capability reported, full credit for the add check); on api it is not
\* justified.  In the security audit and in the capabilities audit alike.
C9_DatabaseAddListJustified ==
    /\ (ruleEval.audit = "caps" /\ ruleEval.HostConfig.CapAdd \in CanonicalOrBare) =>
          /\ DatabaseName(ruleEval.name) =>
                (ruleEval.notJustified = {} /\ ruleEval.credits.add = 2)
          /\ ruleEval.name = Str_api =>
                (ruleEval.notJustified # {} /\ ruleEval.credits.add = 1)
    /\ (ruleEval.audit = "security" /\ ruleEval.inspect = "ok"
            /\ ruleEval.capAdd \in CanonicalOrBare) =>
          /\ DatabaseName(ruleEval.name) =>
                /\ ruleEval.unexpectedCaps = {}
                /\ ALL \in ruleEval.capDrop => ruleEval.result.Passed
          /\ ruleEval.name = Str_api =>
                (ruleEval.unexpectedCaps # {} /\ ~ruleEval.result.Passed)

\* C10: the credit of the capabilities-drop check follows from the drop-list
\* alone: 1 point with ALL in it, half a point when it is non-empty without ALL,
\* nothing when it is empty, whatever the add-list; in the security audit the
\* Capabilities check fails when the drop-list lacks ALL and passes when the
\* drop-list has ALL and the add-list is empty.
C10_DropRule ==
    /\ ruleEval.audit = "caps" =>
          ruleEval.credits.drop =
              (IF ALL \in ruleEval.HostConfig.CapDrop THEN 2
               ELSE IF ruleEval.HostConfig.CapDrop # {} THEN 1
               ELSE 0)
    /\ (ruleEval.audit = "security" /\ ruleEval.inspect = "ok") =>
          /\ ALL \notin ruleEval.capDrop => ~ruleEval.result.Passed
          /\ (ALL \in ruleEval.capDrop /\ ruleEval.capAdd = {}) => ruleEval.result.Passed

C10_Witness ==
    /\ ruleEval.audit = "caps"
    /\ ruleEval.HostConfig.CapDrop = {NET_RAW}
    /\ ruleEval.HostConfig.CapAdd = {NET_ADMIN}
    /\ ruleEval.credits.drop = 1
    /\ ruleEval.credits.add = 1

BothLimits(HostConfig) ==
    /\ HostConfig.Memory > 0
    /\ \/ HostConfig.CpuQuota > 0 /\ HostConfig.CpuPeriod > 0
       \/ HostConfig.NanoCpus > 0

\* C11: the resource-limits rule passes (earns its point) exactly when the
\* container has a positive memory limit and a positive CPU limit, the CPU limit
\* being CpuQuota/CpuPeriod or NanoCpus; with only one of the two it fails, in
\* the security audit and in the capabilities audit alike.
C11_BothLimitsRequired ==
    /\ ruleEval.audit = "caps" =>
          (ruleEval.credits.limits = 2 <=> BothLimits(ruleEval.HostConfig))
    /\ ruleEval.audit = "caps" =>
          (ruleEval.credits.limits = 0 <=> ~BothLimits(ruleEval.HostConfig))
    /\ (ruleEval.audit = "security-limits" /\ ruleEval.inspect = "ok") =>
          (ruleEval.result.Passed <=> BothLimits(ruleEval.HostConfig))

-----------------------------------------------------------------------------
(***************************************************************************)
(* The multi-stage audit: Test-MultiStageDetection                         *)
(* A Dockerfile is a sequence of lines, a line a sequence of words.  A     *)
(* line whose last word is "\" continues on the next line.                 *)
(***************************************************************************)
MaxLines == 3

Str_database == <<"d", "a", "t", "a", "b", "a", "s", "e">>

Str_mysql == <<"m", "y", "s", "q", "l">>

Str_mongo == <<"m", "o", "n", "g", "o">>

Str_redis == <<"r", "e", "d", "i", "s">>

DockerfileLines ==
    {<<"FROM", "node:20-alpine">>,
     <<"FROM", "node:20-alpine", "AS", "builder">>,
     <<"from", "source">>,
     <<"RUN", "echo", "built", "\\">>,
     <<"COPY", "--from=builder", "/app", "/app">>,
     <<"#", "FROM", "scratch">>}

\* (?i)FROM and (?i)AS
IsFROM(word) == word \in {"FROM", "from", "From"}

IsAS(word) == word \in {"AS", "as", "As"}

Continues(line) == line[Len(line)] = "\\"

\* line i begins an instruction: it is not the continuation of the line before
BeginsInstruction(content, i) == i = 1 \/ ~Continues(content[i - 1])

\* the Dockerfiles the audit reads: the first line is a FROM instruction and
\* the last line does not continue
Dockerfiles ==
    {content \in UNION {[1..n -> DockerfileLines] : n \in 1..MaxLines} :
        /\ IsFROM(content[1][1])
        /\ ~Continues(content[Len(content)])}

ParentFolders == {Str_db, Str_postgres, Str_api, Str_frontend}

\* [regex]::Matches($content, '(?mi)^\s*FROM\s+').Count: the lines that begin
\* with the word FROM followed by white space
StageCount(content) ==
    Cardinality({i \in DOMAIN content :
                    IsFROM(content[i][1]) /\ Len(content[i]) >= 2})

\* '(?mi)^\s*FROM\s+\S+\s+AS\s+(\S+)'
NamedStages(content) ==
    {content[i][4] : i \in {j \in DOMAIN content :
                              /\ Len(content[j]) >= 4
                              /\ IsFROM(content[j][1])
                              /\ IsAS(content[j][3])}}

\* 'COPY\s+--from=(\S+)'
CopyFromCount(content) ==
    Cardinality({<<i, k>> \in (DOMAIN content) \X (1..4) :
                    /\ k + 1 <= Len(content[i])
                    /\ content[i][k] = "COPY"
                    /\ content[i][k + 1] \in {"--from=builder"}})

\* $parentFolder -match '(db|database|postgres|mysql|mongo|redis)'
MultiStageOptional(parentFolder) ==
    \E pattern \in {Str_db, Str_database, Str_postgres, Str_mysql, Str_mongo, Str_redis} :
        Matches(parentFolder, pattern)

TestMultiStageDetection(parentFolder, exists, content) ==
    IF ~exists
    THEN [Test |-> <<"Multi-stage", "Dockerfile">>, Passed |-> FALSE,
          Reason |-> <<"File not found">>]
    ELSE LET stageCount == StageCount(content)
             isMultiStage == stageCount >= 2
             multiStageOptional == MultiStageOptional(parentFolder)
         IN  [Test |-> <<"Multi-stage", "Dockerfile">>,
              Passed |-> isMultiStage \/ multiStageOptional,
              Reason |-> IF ~isMultiStage /\ multiStageOptional
                         THEN <<"Single-stage (optional - database image)", parentFolder>>
                         ELSE IF ~isMultiStage
                         THEN <<"stage(s) found: only", stageCount>>
                         ELSE <<>>,
              Details |-> [Stages |-> stageCount,
                           NamedStages |-> NamedStages(content),
                           CopyFromCount |-> CopyFromCount(content),
                           Optional |-> multiStageOptional]]

\* Test-MultiStageDetection applied to a Dockerfile
MultiStageEval ==
    /\ checkPc = "apply"
    /\ checkPc' = "done"
    /\ \E parentFolder \in ParentFolders, exists \in BOOLEAN, content \in Dockerfiles :
          checkEval' = [check |-> "multistage",
                        parentFolder |-> parentFolder,
                        exists |-> exists,
                        content |-> content,
                        result |-> TestMultiStageDetection(parentFolder, exists, content)]
    /\ UNCHANGED <<userResults, userExit, suiteVars, catVars, capsVars, apiVars,
                   deployVars, uiVars>>

(***************************************************************************)
(* The non-root checks: Test-ContainerUser (non-root users audit) and      *)
(* Test-NonRootUser (security audit)                                       *)
(***************************************************************************)
\* the user of PID 1 with its UID, and the user a docker exec runs as
Pid1Users ==
    {[user |-> "root", uid |-> "0"], [user |-> "toor", uid |-> "0"],
     [user |-> "node", uid |-> "1000"], [user |-> "postgres", uid |-> "70"]}

DefaultUsers == {"root", "node", "postgres"}

\* what the probes of a container give: ps prints the PID 1 line ("ok"), no
\* such line ("none") or a line without a third column ("short"); whoami and
\* id -u succeed or not
Containers ==
    [found : BOOLEAN, pid1 : Pid1Users, defaultUser : DefaultUsers,
     ps : {"ok", "none", "short"}, whoamiOk : BOOLEAN, idOk : BOOLEAN]

\* returns "$true", "$false" or "$null"
TestContainerUser(c) ==
    IF ~c.found THEN "$false"
    ELSE IF c.ps = "none" THEN "$null"
    ELSE IF c.ps = "short" THEN "$null"
    ELSE LET ProcessUser == c.pid1.user
             WhoamiResult == c.defaultUser
             UID == c.pid1.uid
         IN  IF c.whoamiOk /\ WhoamiResult = "root" THEN "$false"
             ELSE IF ProcessUser = "root" THEN "$false"
             ELSE IF c.idOk /\ UID = "0" THEN "$false"
             ELSE "$true"

\* the first row under the header of ps -o user,pid is the row of PID 1
TestNonRootUser(c, throws) ==
    IF throws
    THEN [Test |-> "Non-root user", Passed |-> FALSE, Reason |-> "Inspection failed"]
    ELSE IF c.found /\ c.ps # "none"
    THEN LET user == c.pid1.user
             isRoot == user = "root" \/ user = "0"
         IN  [Test |-> "Non-root user", Passed |-> ~isRoot,
              Reason |-> IF isRoot THEN "Running as root (UID 0)" ELSE "",
              Details |-> [User |-> user]]
    ELSE [Test |-> "Non-root user", Passed |-> FALSE,
          Reason |-> "Cannot determine process user"]

\* Test-ContainerUser applied to a service
ContainerUserEval ==
    /\ checkPc = "apply"
    /\ checkPc' = "done"
    /\ \E c \in Containers :
          checkEval' = [check |-> "container-user", container |-> c,
                        result |-> TestContainerUser(c)]
    /\ UNCHANGED <<userResults, userExit, suiteVars, catVars, capsVars, apiVars,
                   deployVars, uiVars>>

\* Test-NonRootUser applied to a container
NonRootUserEval ==
    /\ checkPc = "apply"
    /\ checkPc' = "done"
    /\ \E c \in Containers, throws \in BOOLEAN :
          checkEval' = [check |-> "nonroot", container |-> c, throws |-> throws,
                        result |-> TestNonRootUser(c, throws)]
    /\ UNCHANGED <<userResults, userExit, suiteVars, catVars, capsVars, apiVars,
                   deployVars, uiVars>>

\* the services the non-root users script tests, in its order
UserServices == <<"api", "frontend", "db">>

\* $Results[...] = Test-ContainerUser -ServiceName ...
UserTestService ==
    /\ checkPc = "tests"
    /\ \E c \in Containers : userResults' = Append(userResults, TestContainerUser(c))
    /\ checkPc' = IF Len(userResults) + 1 = Len(UserServices) THEN "report" ELSE "tests"
    /\ UNCHANGED <<checkEval, userExit, suiteVars, catVars, capsVars, apiVars, deployVars, uiVars>>

\* ($Results.Values | Where-Object { $_ -eq value }).Count : no object gives
\* $null and one object gives that object itself, not an array; the Count of
\* $null is 0 and the Count of a Boolean is 1
ValuesCount(values, value) ==
    LET selected == SelectSeq(values, LAMBDA v : v = value)
    IN  IF Len(selected) = 0 THEN 0
        ELSE IF Len(selected) = 1 THEN (IF selected[1] = "$null" THEN 0 ELSE 1)
        ELSE Len(selected)

\* FINAL REPORT: the exit code from $FailedTests and $SkippedTests
UserExitCode(values) ==
    LET FailedTests == ValuesCount(values, "$false")
        SkippedTests == ValuesCount(values, "$null")
    IN  IF FailedTests = 0 /\ SkippedTests = 0 THEN 0
        ELSE IF FailedTests > 0 THEN 1
        ELSE 2

UserFinalReport ==
    /\ checkPc = "report"
    /\ userExit' = UserExitCode(userResults)
    /\ checkPc' = "done"
    /\ UNCHANGED <<checkEval, userResults, suiteVars, catVars, capsVars, apiVars, deployVars,
                   uiVars>>

ChecksInit ==
    /\ checkPc \in {"apply", "tests"}
    /\ checkEval = [check |-> "none"]
    /\ userResults = <<>>
    /\ userExit = 0
    /\ SuiteIdle
    /\ CatIdle
    /\ CapsIdle
    /\ ApiIdle
    /\ DeployIdle
    /\ UiIdle

ChecksNext ==
    \/ MultiStageEval
    \/ ContainerUserEval
    \/ NonRootUserEval
    \/ UserTestService
    \/ UserFinalReport

SpecChecks == ChecksInit /\ [][ChecksNext]_vars

\* the FROM instructions of a Dockerfile, as docker build reads it
FromInstructions(content) ==
    Cardinality({i \in DOMAIN content :
                    BeginsInstruction(content, i) /\ IsFROM(content[i][1])})

\* C12: a Dockerfile with exactly one FROM statement passes the multi-stage
\* check, with a reason saying it is optional, when its parent folder matches a
\* database pattern, and fails when its parent folder is api; a Dockerfile with
\* two or more FROM statements passes with an empty reason whatever the folder.
C12_MultiStageByFolder ==
    (checkEval.check = "multistage" /\ checkEval.exists) =>
        /\ (FromInstructions(checkEval.content) = 1
                /\ MultiStageOptional(checkEval.parentFolder)) =>
              /\ checkEval.result.Passed
              /\ checkEval.result.Reason # <<>>
              /\ checkEval.result.Details.Optional
        /\ (FromInstructions(checkEval.content) = 1 /\ checkEval.parentFolder = Str_api) =>
              ~checkEval.result.Passed
        /\ FromInstructions(checkEval.content) >= 2 =>
              (checkEval.result.Passed /\ checkEval.result.Reason = <<>>)

Pid1IsRoot(c) == c.pid1.user = "root" \/ c.pid1.uid = "0"

WhoamiSaysRoot(c) == c.whoamiOk /\ c.defaultUser = "root"

\* C13: the non-root check of a service fails if the PID 1 user is root or has
\* UID 0, and fails as well if whoami reports root as the default user whatever
\* PID 1 is; it succeeds only when PID 1 could be determined and none of these
\* holds.
C13_NonRootCheck ==
    /\ checkEval.check = "container-user" =>
          LET c == checkEval.container
          IN  /\ (c.found /\ c.ps = "ok" /\ Pid1IsRoot(c)) => checkEval.result = "$false"
              /\ (c.found /\ c.ps = "ok" /\ WhoamiSaysRoot(c)) => checkEval.result = "$false"
              /\ checkEval.result = "$true" =>
                    (c.found /\ c.ps = "ok" /\ ~Pid1IsRoot(c) /\ ~WhoamiSaysRoot(c))
    /\ (checkEval.check = "nonroot" /\ ~checkEval.throws) =>
          LET c == checkEval.container
          IN  /\ (c.found /\ c.ps # "none" /\ Pid1IsRoot(c)) => ~checkEval.result.Passed
              /\ (c.found /\ c.ps # "none" /\ WhoamiSaysRoot(c)) => ~checkEval.result.Passed
              /\ checkEval.result.Passed =>
                    (c.found /\ c.ps # "none" /\ ~Pid1IsRoot(c) /\ ~WhoamiSaysRoot(c))

-----------------------------------------------------------------------------
(***************************************************************************)
(* The API: an Express application serving one request                     *)
(* A path is the sequence of its segments, a segment a sequence of         *)
(* characters; a number read from the path is kept as its decimal digits.  *)
(***************************************************************************)
Str_items == <<"i", "t", "e", "m", "s">>

Str_status == <<"s", "t", "a", "t", "u", "s">>

Str_ready == <<"r", "e", "a", "d", "y">>

Str_nope == <<"n", "o", "p", "e">>

IdParams ==
    {<<"1">>, <<"2">>, <<"9", "9", "9", "9", "9", "9">>,
     <<"3", "0", "0", "0", "0", "0", "0", "0", "0", "0">>,
     <<"a", "b", "c">>, <<"1", "a", "b", "c">>}

Paths ==
    {<<>>, <<Str_items>>, <<Str_status>>, <<Str_ready>>, <<Str_nope>>,
     <<Str_status, Str_nope>>}
    \cup {<<Str_items, id>> : id \in IdParams}
    \cup {<<Str_items, id, Str_nope>> : id \in IdParams}

Methods == {"GET", "HEAD", "POST", "DELETE", "OPTIONS"}

\* the request body: none, well-formed JSON, or JSON that does not parse
Bodies == {"none", "json", "malformed"}

\* the ids of the rows of table items
Rows == {<<"1">>, <<"2">>}

Digits == {"0", "1", "2", "3", "4", "5", "6", "7", "8", "9"}

DigitValue(d) ==
    CASE d = "0" -> 0 [] d = "1" -> 1 [] d = "2" -> 2 [] d = "3" -> 3 [] d = "4" -> 4
      [] d = "5" -> 5 [] d = "6" -> 6 [] d = "7" -> 7 [] d = "8" -> 8 [] d = "9" -> 9

RECURSIVE LeadingDigits(_)
LeadingDigits(chars) ==
    IF chars = <<>> \/ Head(chars) \notin Digits THEN <<>>
    ELSE <<Head(chars)>> \o LeadingDigits(Tail(chars))

RECURSIVE StripZeros(_)
StripZeros(digits) ==
    IF Len(digits) > 1 /\ Head(digits) = "0" THEN StripZeros(Tail(digits)) ELSE digits

\* parseInt(text, 10): the number written by the leading digits, NaN without any
ParseInt(text) ==
    LET digits == LeadingDigits(text)
    IN  IF digits = <<>> THEN [nan |-> TRUE, digits |-> <<>>]
        ELSE [nan |-> FALSE, digits |-> StripZeros(digits)]

RECURSIVE DigitsLeq(_, _)
DigitsLeq(a, b) ==
    IF a = <<>> THEN TRUE
    ELSE IF DigitValue(Head(a)) < DigitValue(Head(b)) THEN TRUE
    ELSE IF DigitValue(Head(a)) > DigitValue(Head(b)) THEN FALSE
    ELSE DigitsLeq(Tail(a), Tail(b))

\* the id column is SERIAL, a 32-bit integer: at most 2147483647
InInteger(digits) ==
    \/ Len(digits) < 10
    \/ Len(digits) = 10
         /\ DigitsLeq(digits, <<"2", "1", "4", "7", "4", "8", "3", "6", "4", "7">>)

\* the errors of utils/errors.js, and the error of the JSON body parser
NotFoundError == [name |-> "NotFoundError", isAppError |-> TRUE, isOperational |-> TRUE,
                  statusCode |-> 404]

DatabaseError == [name |-> "DatabaseError", isAppError |-> TRUE, isOperational |-> TRUE,
                  statusCode |-> 500]

BodyParseError == [name |-> "SyntaxError", isAppError |-> FALSE, isOperational |-> FALSE,
                   statusCode |-> 400]

NoError == [name |-> "none"]

\* pool.query: rejects when the database is down, and when the id parameter is
\* not an integer of the column's type
QueryRejects(up, id) == ~up \/ id.nan \/ ~InInteger(id.digits)

\* ItemRepository.findById: the row, null (here <<>>) without a row, or a
\* DatabaseError
FindById(up, id) ==
    IF QueryRejects(up, id) THEN [threw |-> TRUE, error |-> DatabaseError]
    ELSE [threw |-> FALSE, row |-> IF id.digits \in Rows THEN id.digits ELSE <<>>]

\* ItemRepository.findAll
FindAll(up) ==
    IF ~up THEN [threw |-> TRUE, error |-> DatabaseError]
    ELSE [threw |-> FALSE, rows |-> Rows]

\* ItemRepository.healthCheck
HealthCheck_rethrows(up) ==
    IF ~up THEN [threw |-> TRUE, error |-> DatabaseError]
    ELSE [threw |-> FALSE, value |-> TRUE]

HealthCheck(up) == [threw |-> FALSE, value |-> up]

\* ItemService.checkDatabaseHealth
CheckDatabaseHealth(up) ==
    LET isHealthy == HealthCheck(up)
    IN  IF isHealthy.threw THEN isHealthy
        ELSE [threw |-> FALSE,
              value |-> [database |-> IF isHealthy.value THEN "healthy" ELSE "unhealthy"]]

\* ItemService.getItemById
GetItemById(up, id) ==
    LET row == FindById(up, id)
    IN  IF row.threw THEN row
        ELSE IF row.row = <<>> THEN [threw |-> TRUE, error |-> NotFoundError]
        ELSE [threw |-> FALSE, item |-> row.row]

\* what a handler does: it sends a response, or passes an error to next(error);
\* queries lists what it asked the database
Sends(status, body, queries) ==
    [sent |-> TRUE, res |-> [status |-> status, body |-> body], queries |-> queries]

NextError(error, queries) == [sent |-> FALSE, error |-> error, queries |-> queries]

\* HealthController.status
StatusHandler == Sends(200, [status |-> "OK"], <<>>)

\* HealthController.ready
ReadyHandler(up) ==
    LET health == CheckDatabaseHealth(up)
    IN  IF health.threw THEN NextError(health.error, <<"SELECT 1">>)
        ELSE LET isReady == health.value.database = "healthy"
             IN  Sends(IF isReady THEN 200 ELSE 503,
                       [ready |-> isReady, database |-> health.value.database],
                       <<"SELECT 1">>)

\* ItemController.getAll
GetAllHandler(up) ==
    LET items == FindAll(up)
    IN  IF items.threw THEN NextError(items.error, <<"SELECT items">>)
        ELSE Sends(200, [items |-> items.rows], <<"SELECT items">>)

\* ItemController.getById
GetByIdHandler(up, param) ==
    LET id == ParseInt(param)
        item == GetItemById(up, id)
    IN  IF item.threw THEN NextError(item.error, <<"SELECT item by id">>)
        ELSE Sends(200, [item |-> item.item], <<"SELECT item by id">>)

\* a router.get route also serves HEAD
IsGet(method) == method \in {"GET", "HEAD"}

\* the effect of a handler on the state
Handle(outcome) ==
    /\ dbQueries' = dbQueries \o outcome.queries
    /\ IF outcome.sent
       THEN apiRes' = outcome.res /\ apiPc' = "sent" /\ UNCHANGED apiErr
       ELSE apiErr' = outcome.error /\ apiPc' = "errorHandler" /\ UNCHANGED apiRes

PassOn(to) ==
    /\ apiPc' = to
    /\ UNCHANGED <<apiErr, apiRes, dbQueries>>

\* app.use(cors(appConfig.cors)): a preflight (OPTIONS) is answered at once
ApiCors ==
    /\ apiPc = "cors"
    /\ IF apiReq.method = "OPTIONS"
       THEN Handle(Sends(204, [empty |-> TRUE], <<>>))
       ELSE PassOn("json")
    /\ UNCHANGED <<apiReq, dbUp, suiteVars, catVars, capsVars, checkVars, deployVars, uiVars>>

\* app.use(express.json()): a body that does not parse is an error
ApiJson ==
    /\ apiPc = "json"
    /\ IF apiReq.body = "malformed"
       THEN Handle(NextError(BodyParseError, <<>>))
       ELSE PassOn("urlencoded")
    /\ UNCHANGED <<apiReq, dbUp, suiteVars, catVars, capsVars, checkVars, deployVars, uiVars>>

\* app.use(express.urlencoded({ extended: true }))
ApiUrlencoded ==
    /\ apiPc = "urlencoded"
    /\ PassOn("requestLogger")
    /\ UNCHANGED <<apiReq, dbUp, suiteVars, catVars, capsVars, checkVars, deployVars, uiVars>>

\* app.use(requestLogger)
ApiRequestLogger ==
    /\ apiPc = "requestLogger"
    /\ PassOn("itemRoutes")
    /\ UNCHANGED <<apiReq, dbUp, suiteVars, catVars, capsVars, checkVars, deployVars, uiVars>>

\* app.use('/items', itemRoutes)
ApiItemRoutes ==
    /\ apiPc = "itemRoutes"
    /\ LET path == apiReq.path
       IN  IF IsGet(apiReq.method) /\ Len(path) = 1 /\ path[1] = Str_items
           THEN Handle(GetAllHandler(dbUp))
           ELSE IF IsGet(apiReq.method) /\ Len(path) = 2 /\ path[1] = Str_items
           THEN Handle(GetByIdHandler(dbUp, path[2]))
           ELSE PassOn("healthRoutes")
    /\ UNCHANGED <<apiReq, dbUp, suiteVars, catVars, capsVars, checkVars, deployVars, uiVars>>

\* app.use('/', healthRoutes)
ApiHealthRoutes ==
    /\ apiPc = "healthRoutes"
    /\ IF IsGet(apiReq.method) /\ apiReq.path = <<Str_status>>
       THEN Handle(StatusHandler)
       ELSE IF IsGet(apiReq.method) /\ apiReq.path = <<Str_ready>>
       THEN Handle(ReadyHandler(dbUp))
       ELSE PassOn("notFoundHandler")
    /\ UNCHANGED <<apiReq, dbUp, suiteVars, catVars, capsVars, checkVars, deployVars, uiVars>>

\* app.use(notFoundHandler)
ApiNotFoundHandler ==
    /\ apiPc = "notFoundHandler"
    /\ Handle(Sends(404, [success |-> FALSE, error |-> [statusCode |-> 404]], <<>>))
    /\ UNCHANGED <<apiReq, dbUp, suiteVars, catVars, capsVars, checkVars, deployVars, uiVars>>

\* app.use(errorHandler)
ApiErrorHandler ==
    /\ apiPc = "errorHandler"
    /\ IF apiErr.isAppError /\ apiErr.isOperational
       THEN Handle(Sends(apiErr.statusCode,
                         [success |-> FALSE, error |-> [statusCode |-> apiErr.statusCode]],
                         <<>>))
       ELSE Handle(Sends(500, [success |-> FALSE, error |-> [statusCode |-> 500]], <<>>))
    /\ UNCHANGED <<apiReq, dbUp, suiteVars, catVars, capsVars, checkVars, deployVars, uiVars>>

ApiInit ==
    /\ apiReq \in [method : Methods, path : Paths, body : Bodies]
    /\ dbUp \in BOOLEAN
    /\ apiPc = "cors"
    /\ apiErr = NoError
    /\ apiRes = [status |-> 0]
    /\ dbQueries = <<>>
    /\ SuiteIdle
    /\ CatIdle
    /\ CapsIdle
    /\ ChecksIdle
    /\ DeployIdle
    /\ UiIdle

ApiNext ==
    \/ ApiCors
    \/ ApiJson
    \/ ApiUrlencoded
    \/ ApiRequestLogger
    \/ ApiItemRoutes
    \/ ApiHealthRoutes
    \/ ApiNotFoundHandler
    \/ ApiErrorHandler

SpecApi == ApiInit /\ [][ApiNext]_vars

-----------------------------------------------------------------------------
(***************************************************************************)
(* Properties of the API                                                   *)
(***************************************************************************)
ApiSent == apiPc = "sent"

\* the request is for route GET /items/:id and reaches it
ItemByIdRequest ==
    /\ IsGet(apiReq.method)
    /\ Len(apiReq.path) = 2
    /\ apiReq.path[1] = Str_items
    /\ apiReq.body # "malformed"

\* C14: GET /ready answers 200 with ready true and database "healthy" when the
\* database query succeeds, 503 with ready false and database "unhealthy" when
\* it fails; ready is true iff database is "healthy" iff the status is 200, and
\* a database failure never gives a 500 on this route.
C14_ReadyReflectsDatabase ==
    (ApiSent /\ apiReq.path = <<Str_ready>> /\ dbQueries # <<>>) =>
        /\ dbUp => (apiRes.status = 200 /\ apiRes.body.ready
                       /\ apiRes.body.database = "healthy")
        /\ ~dbUp => (apiRes.status = 503 /\ ~apiRes.body.ready
                       /\ apiRes.body.database = "unhealthy")
        /\ apiRes.body.ready <=> apiRes.body.database = "healthy"
        /\ apiRes.body.ready <=> apiRes.status = 200
        /\ apiRes.status # 500

C14_Witness ==
    /\ ApiSent
    /\ apiReq.method = "GET"
    /\ apiReq.path = <<Str_ready>>
    /\ ~dbUp
    /\ dbQueries = <<"SELECT 1">>
    /\ apiRes.status = 503

\* C15: GET /items/:id for an id that matches no row, the database being
\* reachable, answers 404 with an error body whose statusCode is 404; never 200,
\* never 500.
C15_UnknownItemIs404 ==
    (ApiSent /\ ItemByIdRequest /\ dbUp /\ apiReq.path[2] \notin Rows) =>
        /\ apiRes.status = 404
        /\ apiRes.body.error.statusCode = 404

\* the id is not a number
InvalidId(param) == LeadingDigits(param) # param

\* C17: the item controller validates the id of GET /items/:id and answers 400
\* when it is invalid (not a number), without querying the database.
C17_InvalidIdIs400 ==
    (ApiSent /\ ItemByIdRequest /\ InvalidId(apiReq.path[2])) =>
        /\ apiRes.status = 400
        /\ dbQueries = <<>>

\* the registered routes: GET /items, GET /items/:id, GET /status, GET /ready
RegisteredRoute(method, path) ==
    /\ IsGet(method)
    /\ \/ path = <<Str_items>>
       \/ Len(path) = 2 /\ path[1] = Str_items
       \/ path = <<Str_status>>
       \/ path = <<Str_ready>>

\* C16: every request whose method and path match no registered route is
\* answered 404 by the not-found handler.
C16_UnknownRouteIs404 ==
    (ApiSent /\ ~RegisteredRoute(apiReq.method, apiReq.path)) =>
        /\ apiRes.status = 404
        /\ apiRes.body.error.statusCode = 404

-----------------------------------------------------------------------------
(***************************************************************************)
(* tests/test-security-scan.ps1                                            *)
(***************************************************************************)
Images == <<"api", "db", "frontend">>

\* what a Trivy scan of one image meets: it cannot be read ("error"), or it
\* counts the CRITICAL and HIGH vulnerabilities
ScanOutcomes ==
    {[ok |-> FALSE, Critical |-> 0, High |-> 0], [ok |-> TRUE, Critical |-> 0, High |-> 0],
     [ok |-> TRUE, Critical |-> 0, High |-> 3], [ok |-> TRUE, Critical |-> 2, High |-> 1]}

\* Invoke-TrivyScan
InvokeTrivyScan(ImageTag, outcome) ==
    IF outcome.ok
    THEN [Success |-> TRUE, ImageTag |-> ImageTag, Critical |-> outcome.Critical,
          High |-> outcome.High, Total |-> outcome.Critical + outcome.High]
    ELSE [Success |-> FALSE, ImageTag |-> ImageTag, Error |-> "scan error"]

RECURSIVE SumSuccessful(_, _)
SumSuccessful(results, key) ==
    IF results = <<>> THEN 0
    ELSE (IF Head(results).Success THEN Head(results)[key] ELSE 0)
         + SumSuccessful(Tail(results), key)

\* the script without its Trivy check: it scans every image, then returns an
\* object (-ReturnObject) or exits 1 when a scanned image has a CRITICAL
ScanImages(outcomes, ReturnObject) ==
    LET results == [i \in DOMAIN Images |-> InvokeTrivyScan(Images[i], outcomes[i])]
    IN  IF ReturnObject
        THEN [kind |-> "return",
              value |-> [Success |-> TRUE, Results |-> results,
                         TotalCritical |-> SumSuccessful(results, "Critical"),
                         TotalHigh |-> SumSuccessful(results, "High")]]
        ELSE [kind |-> "exit",
              code |-> IF SumSuccessful(results, "Critical") > 0 THEN 1 ELSE 0]

\* "Check Trivy availability"
TrivyUnavailable_alwaysExits(ReturnObject) == [kind |-> "exit", code |-> 1]

TrivyUnavailable(ReturnObject) ==
    IF ReturnObject
    THEN [kind |-> "return", value |-> [Success |-> FALSE, Error |-> "Trivy not available"]]
    ELSE [kind |-> "exit", code |-> 1]

\* the whole script
ScanScript(trivyAvailable, outcomes, ReturnObject) ==
    IF ~trivyAvailable THEN TrivyUnavailable(ReturnObject)
    ELSE ScanImages(outcomes, ReturnObject)

\* the scan script run as an audit of its own
ScanStandalone ==
    /\ deployMode = "scan"
    /\ deployPc = "scan"
    /\ \E trivyAvailable \in BOOLEAN, outcomes \in [DOMAIN Images -> ScanOutcomes] :
          LET out == ScanScript(trivyAvailable, outcomes, FALSE)
          IN  /\ scanRun' = [ran |-> TRUE, trivyAvailable |-> trivyAvailable,
                             outcomes |-> outcomes, ReturnObject |-> FALSE, out |-> out]
              /\ deployExit' = out.code
    /\ deployPc' = "done"
    /\ deployLog' = Append(deployLog, "scan")
    /\ UNCHANGED <<deployMode, deployFlags, deployImage, deployOutcomes,
                   suiteVars, catVars, capsVars, checkVars, apiVars, uiVars>>

-----------------------------------------------------------------------------
(***************************************************************************)
(* build-and-deploy.ps1                                                    *)
(***************************************************************************)
\* what the step's command gave is kept next to the step
Outcome(ok) == deployOutcomes' = Append(deployOutcomes, ok)

\* the step is carried out and the script goes on to the next one
Proceed(step, to) ==
    /\ deployLog' = Append(deployLog, step)
    /\ deployPc' = to
    /\ UNCHANGED deployExit

\* the step is not carried out (its switch skips it)
Skip(to) ==
    /\ deployPc' = to
    /\ UNCHANGED <<deployLog, deployOutcomes, deployExit>>

\* Write-Failure ...; exit 1
Abort(step) ==
    /\ deployLog' = Append(deployLog, step)
    /\ deployPc' = "done"
    /\ deployExit' = 1

\* Step 1: Test-Environment
DeployTestEnvironment ==
    /\ deployMode = "pipeline"
    /\ deployPc = "environment"
    /\ \E dockerInstalled \in BOOLEAN, dockerPsThrows \in BOOLEAN :
          /\ Outcome(dockerInstalled /\ ~dockerPsThrows)
          /\ IF ~dockerInstalled \/ dockerPsThrows
             THEN Abort(<<"environment">>)
             ELSE Proceed(<<"environment">>, "build")
    /\ UNCHANGED <<deployMode, deployFlags, deployImage, scanRun,
                   suiteVars, catVars, capsVars, checkVars, apiVars, uiVars>>

\* Step 2: Build-Images, one image of the foreach
DeployBuildImage ==
    /\ deployMode = "pipeline"
    /\ deployPc = "build"
    /\ \E built \in BOOLEAN :
          /\ Outcome(built)
          /\ IF ~built
             THEN Abort(<<"build", Images[deployImage]>>) /\ UNCHANGED deployImage
             ELSE /\ Proceed(<<"build", Images[deployImage]>>,
                             IF deployImage = Len(Images) THEN "scan" ELSE "build")
                  /\ deployImage' = IF deployImage = Len(Images) THEN 1
                                    ELSE deployImage + 1
    /\ UNCHANGED <<deployMode, deployFlags, scanRun,
                   suiteVars, catVars, capsVars, checkVars, apiVars, uiVars>>

\* Step 3: Invoke-SecurityScan
DeployInvokeSecurityScan ==
    /\ deployMode = "pipeline"
    /\ deployPc = "scan"
    /\ IF deployFlags.SkipScan
       THEN Skip("compose") /\ UNCHANGED scanRun
       ELSE \E scriptFound \in BOOLEAN, trivyAvailable \in BOOLEAN,
               outcomes \in [DOMAIN Images -> ScanOutcomes] :
               IF ~scriptFound
               THEN Skip("compose") /\ UNCHANGED scanRun
               ELSE LET out == ScanScript(trivyAvailable, outcomes, TRUE)
                        \* $scanResult.Success; a script that exits leaves $null
                        Success == out.kind = "return" /\ out.value.Success
                    IN  /\ scanRun' = [ran |-> TRUE, trivyAvailable |-> trivyAvailable,
                                       outcomes |-> outcomes, ReturnObject |-> TRUE,
                                       out |-> out,
                                       warning |-> IF Success THEN ""
                                                   ELSE "Scan unavailable or error"]
                        /\ Outcome(Success)
                        /\ Proceed(<<"scan">>, "compose")
    /\ UNCHANGED <<deployMode, deployFlags, deployImage,
                   suiteVars, catVars, capsVars, checkVars, apiVars, uiVars>>

\* Step 4: Test-DockerCompose
DeployTestDockerCompose_ignoresInvalid ==
    /\ deployMode = "pipeline"
    /\ deployPc = "compose"
    /\ \E valid \in BOOLEAN :
          /\ Outcome(valid)
          /\ Proceed(<<"compose">>, "login")
    /\ UNCHANGED <<deployMode, deployFlags, deployImage, scanRun,
                   suiteVars, catVars, capsVars, checkVars, apiVars, uiVars>>
DeployTestDockerCompose ==
    /\ deployMode = "pipeline"
    /\ deployPc = "compose"
    /\ \E valid \in BOOLEAN :
          /\ Outcome(valid)
          /\ IF valid THEN Proceed(<<"compose">>, "login") ELSE Abort(<<"compose">>)
    /\ UNCHANGED <<deployMode, deployFlags, deployImage, scanRun,
                   suiteVars, catVars, capsVars, checkVars, apiVars, uiVars>>

\* Step 5: Connect-Registry
DeployConnectRegistry ==
    /\ deployMode = "pipeline"
    /\ deployPc = "login"
    /\ IF deployFlags.SkipPush
       THEN Skip("push")
       ELSE \E loggedIn \in BOOLEAN, loginResult \in {0, 1} :
               /\ Outcome(loggedIn \/ loginResult = 0)
               /\ IF loggedIn \/ loginResult = 0
                  THEN Proceed(<<"login">>, "push")
                  ELSE Abort(<<"login">>)
    /\ UNCHANGED <<deployMode, deployFlags, deployImage, scanRun,
                   suiteVars, catVars, capsVars, checkVars, apiVars, uiVars>>

\* Step 6: Push-Images, one image of the foreach
DeployPushImage ==
    /\ deployMode = "pipeline"
    /\ deployPc = "push"
    /\ IF deployFlags.SkipPush
       THEN Skip("deploy") /\ UNCHANGED deployImage
       ELSE \E pushed \in BOOLEAN :
               /\ Outcome(pushed)
               /\ IF ~pushed
                  THEN Abort(<<"push", Images[deployImage]>>) /\ UNCHANGED deployImage
                  ELSE /\ Proceed(<<"push", Images[deployImage]>>,
                                  IF deployImage = Len(Images) THEN "deploy" ELSE "push")
                       /\ deployImage' = IF deployImage = Len(Images) THEN 1
                                         ELSE deployImage + 1
    /\ UNCHANGED <<deployMode, deployFlags, scanRun,
                   suiteVars, catVars, capsVars, checkVars, apiVars, uiVars>>

\* Step 7: Start-Deployment
DeployStartDeployment ==
    /\ deployMode = "pipeline"
    /\ deployPc = "deploy"
    /\ IF deployFlags.SkipDeploy
       THEN Skip("summary")
       ELSE \E started \in BOOLEAN :
               /\ Outcome(started)
               /\ IF started THEN Proceed(<<"deploy">>, "summary")
                  ELSE Abort(<<"deploy">>)
    /\ UNCHANGED <<deployMode, deployFlags, deployImage, scanRun,
                   suiteVars, catVars, capsVars, checkVars, apiVars, uiVars>>

\* "DEPLOYMENT COMPLETED SUCCESSFULLY": the script ends
DeploySummary ==
    /\ deployMode = "pipeline"
    /\ deployPc = "summary"
    /\ deployPc' = "done"
    /\ deployExit' = 0
    /\ UNCHANGED <<deployMode, deployFlags, deployImage, deployLog, deployOutcomes, scanRun,
                   suiteVars, catVars, capsVars, checkVars, apiVars, uiVars>>

DeployInit ==
    /\ deployMode \in {"pipeline", "scan"}
    /\ deployFlags \in [SkipScan : BOOLEAN, SkipPush : BOOLEAN, SkipDeploy : BOOLEAN]
    /\ deployMode = "scan" =>
          deployFlags = [SkipScan |-> FALSE, SkipPush |-> FALSE, SkipDeploy |-> FALSE]
    /\ deployPc = IF deployMode = "pipeline" THEN "environment" ELSE "scan"
    /\ deployImage = 1
    /\ deployLog = <<>>
    /\ deployOutcomes = <<>>
    /\ deployExit = "running"
    /\ scanRun = [ran |-> FALSE]
    /\ SuiteIdle
    /\ CatIdle
    /\ CapsIdle
    /\ ChecksIdle
    /\ ApiIdle
    /\ UiIdle

DeployNext ==
    \/ DeployTestEnvironment
    \/ DeployBuildImage
    \/ DeployInvokeSecurityScan
    \/ DeployTestDockerCompose
    \/ DeployConnectRegistry
    \/ DeployPushImage
    \/ DeployStartDeployment
    \/ DeploySummary
    \/ ScanStandalone

SpecDeploy == DeployInit /\ [][DeployNext]_vars

-----------------------------------------------------------------------------
(***************************************************************************)
(* Properties of the deploy pipeline and of the scan script                *)
(***************************************************************************)
ScannerUnavailable == scanRun.ran /\ ~scanRun.trivyAvailable

\* the script stopped with exit 1 at the step it logged last
AbortedAt(step) ==
    /\ deployPc = "done"
    /\ deployExit = 1
    /\ deployLog # <<>>
    /\ deployLog[Len(deployLog)] = step

\* C18: when the scanner is unavailable, the scan called by the pipeline with
\* -ReturnObject returns a result whose Success is false, the pipeline only
\* warns and goes on to the following steps (it never stops at the scan
\* step), and the scan run on its own exits with code 1.
C18_ScannerUnavailableSoftOrHard ==
    ScannerUnavailable =>
        IF deployMode = "pipeline"
        THEN /\ scanRun.ReturnObject
             /\ scanRun.out.kind = "return"
             /\ scanRun.out.value.Success = FALSE
             /\ scanRun.warning = "Scan unavailable or error"
             /\ ~AbortedAt(<<"scan">>)
             /\ deployLog[Len(deployLog)] = <<"scan">> => deployPc = "compose"
        ELSE /\ ~scanRun.ReturnObject
             /\ scanRun.out = [kind |-> "exit", code |-> 1]
             /\ deployPc = "done"
             /\ deployExit = 1

\* the pipeline met an unavailable scanner and still deployed and ended with 0
C18_Witness ==
    /\ deployMode = "pipeline"
    /\ ScannerUnavailable
    /\ deployPc = "done"
    /\ deployExit = 0
    /\ deployLog[Len(deployLog)] = <<"deploy">>

\* the order of the steps as the report states it
ReportedOrder ==
    <<"environment", "build", "compose", "scan", "login", "push", "deploy">>

ReportedRank(entry) ==
    CHOOSE r \in DOMAIN ReportedOrder : ReportedOrder[r] = entry[1]

\* C19: the steps are carried out in the order environment check, build,
\* compose validation, security scan, login, push, deployment; in particular
\* the compose validation comes before the security scan.
C19_StepsInReportedOrder ==
    deployMode = "pipeline" =>
        \A i, j \in DOMAIN deployLog :
            i < j => ReportedRank(deployLog[i]) <= ReportedRank(deployLog[j])

-----------------------------------------------------------------------------
(***************************************************************************)
(* Frame of the audits                                                     *)
(***************************************************************************)
\* C20: no audit check mutates its target: once the capabilities audit has
\* run over its services, every container holds what it held before the
\* audit started.
C20_AuditLeavesContainersUnchanged ==
    (capMode = "script" /\ capsPc = "done") =>
        containerState.now = containerState.before

-----------------------------------------------------------------------------
(***************************************************************************)
(* Order and number of the results of a category report                    *)
(***************************************************************************)
\* C21: the results of the security audit are appended target by target: all
\* the results of one container come before any result of the next container.
C21_ResultsTargetByTarget ==
    script = "security" =>
        \A i, j \in DOMAIN TestResults.Steps :
            i < j => TestResults.Steps[i].Target <= TestResults.Steps[j].Target

SecurityAuditOver == script = "security" /\ catPc \in {"report", "done"}

\* C22: a failed check never aborts the others: once the security audit has
\* run its steps over n resolved containers, exactly 5 * n results are
\* recorded, whatever the outcome of each check.
C22_FiveResultsPerContainer ==
    SecurityAuditOver => Len(TestResults.Steps) = 5 * facts.containers

\* the audit ended over at least two containers with failed and passed checks
C22_Witness ==
    /\ SecurityAuditOver
    /\ catPc = "done"
    /\ facts.containers >= 2
    /\ TestResults.Failed >= 2
    /\ TestResults.Passed >= 1
    /\ ~TestResults.Steps[1].Passed

CountersAgree ==
    /\ TestResults.TotalTests = TestResults.Passed + TestResults.Failed
    /\ TestResults.TotalTests = Len(TestResults.Steps)

\* what one Add-TestResult call does to $Script:TestResults
OneResultAdded ==
    /\ TestResults'.TotalTests = TestResults.TotalTests + 1
    /\ Len(TestResults'.Steps) = Len(TestResults.Steps) + 1
    /\ SubSeq(TestResults'.Steps, 1, Len(TestResults.Steps)) = TestResults.Steps
    /\ \/ /\ TestResults'.Passed = TestResults.Passed + 1
          /\ TestResults'.Failed = TestResults.Failed
       \/ /\ TestResults'.Passed = TestResults.Passed
          /\ TestResults'.Failed = TestResults.Failed + 1

\* C28: TotalTests = Passed + Failed = number of entries of Steps at all times,
\* every change of the results is one entry appended with exactly one of
\* Passed and Failed raised by one, and the entries already recorded stay as
\* they are.
C28_CountersAndStepsAgree ==
    /\ []CountersAgree
    /\ [][TestResults' # TestResults => OneResultAdded]_vars

\* a script ended with passed and failed checks recorded
C28_Witness ==
    /\ catPc = "done"
    /\ TestResults.Passed >= 2
    /\ TestResults.Failed >= 2
    /\ Len(TestResults.Steps) >= 4

ApiAuditOver == script = "api" /\ catPc \in {"report", "done"}

\* C25: the database-health check of /ready is always recorded by the API
\* functional audit (as failed when /ready answers non-2xx or cannot be
\* reached), so every run records the same number of checks.
C25_ReadyDatabaseCheckRecorded ==
    ApiAuditOver =>
        /\ \E i \in DOMAIN TestResults.Steps :
              TestResults.Steps[i].Test = "Database healthy in ready check"
        /\ Len(TestResults.Steps) = Len(ApiChecks(facts))

-----------------------------------------------------------------------------
(***************************************************************************)
(* Exit code of the non-root users script                                  *)
(***************************************************************************)
UserScriptOver == checkPc = "done" /\ Len(userResults) = Len(UserServices)

NumberOf(value) == Cardinality({i \in DOMAIN userResults : userResults[i] = value})

\* C26: the non-root users script exits 0 only if all three services were
\* verified non-root, 1 if at least one failed, and 2 if none failed but at
\* least one could not be verified.
C26_UserScriptExitCode ==
    UserScriptOver =>
        userExit = IF NumberOf("$false") > 0 THEN 1
                   ELSE IF NumberOf("$null") > 0 THEN 2
                   ELSE 0

-----------------------------------------------------------------------------
(***************************************************************************)
(* Purity of the security audit's Capabilities check                       *)
(***************************************************************************)
\* C27: for a container name, a drop-list and an add-list, the verdict of the
\* security audit's Capabilities check is the same whatever the order in
\* which the keys of $expectedCaps are enumerated, also when the name matches
\* more than one key.
C27_VerdictIndependentOfKeyOrder ==
    (ruleEval.audit = "security" /\ ruleEval.inspect = "ok") =>
        \A type \in ContainerTypes(ruleEval.name) :
            TestCapabilities(ruleEval.name, ruleEval.inspect, ruleEval.capDrop,
                             ruleEval.capAdd, "", type).Passed
                = ruleEval.result.Passed

-----------------------------------------------------------------------------
(***************************************************************************)
(* Gating of the pipeline's steps; exit code of the scan run on its own     *)
(***************************************************************************)
\* the step was carried out with success before position i of the log
DoneBefore(step, i) ==
    \E j \in DOMAIN deployLog : j < i /\ deployLog[j] = step /\ deployOutcomes[j]

AllImagesBefore(stepName, i) ==
    \A k \in DOMAIN Images : DoneBefore(<<stepName, Images[k]>>, i)

\* C23: an image is pushed only after the three images were built and the
\* compose configuration was validated; deployment starts only after every
\* push succeeded or -SkipPush was given; a failed build, compose validation,
\* login or push ends the script with exit code 1 and is the last step.
C23_PipelineGating ==
    deployMode = "pipeline" =>
        \A i \in DOMAIN deployLog :
            /\ deployLog[i][1] = "push" =>
                  AllImagesBefore("build", i) /\ DoneBefore(<<"compose">>, i)
            /\ deployLog[i] = <<"deploy">> =>
                  deployFlags.SkipPush \/ AllImagesBefore("push", i)
            /\ (deployLog[i][1] \in {"build", "compose", "login", "push"}
                    /\ ~deployOutcomes[i]) =>
                  /\ i = Len(deployLog)
                  /\ deployPc = "done"
                  /\ deployExit = 1

\* the three images were pushed and the deployment was started
C23_Witness ==
    /\ deployMode = "pipeline"
    /\ ~deployFlags.SkipPush
    /\ deployPc = "done"
    /\ deployExit = 0
    /\ deployLog[Len(deployLog)] = <<"deploy">>
    /\ AllImagesBefore("push", Len(deployLog))

StandaloneScanRan == deployMode = "scan" /\ scanRun.ran /\ scanRun.trivyAvailable

\* C24: the scan run on its own exits non-zero when the scan of at least one
\* image failed, and exits 0 only if every image was scanned with success and
\* no CRITICAL vulnerability was found.
C24_FailedScanIsFailure ==
    StandaloneScanRan =>
        (deployExit = 0 <=>
            \A i \in DOMAIN Images :
                scanRun.outcomes[i].ok /\ scanRun.outcomes[i].Critical = 0)

-----------------------------------------------------------------------------
(***************************************************************************)
(* The frontend: ItemsList.vue, the useItems composable, ApiService        *)
(***************************************************************************)
MaxItems == 2

MaxCalls == 3

\* items as the API sends them; JSON may carry more fields than ApiItem names
ApiItemPool ==
    {[id |-> 1, title |-> "Welcome", body |-> "first", createdAt |-> "2025-01-01"],
     [id |-> 2, title |-> "Docker", body |-> "second", createdAt |-> "2025-01-02",
      owner |-> "td_user"]}

ApiItemLists == UNION {[1..n -> ApiItemPool] : n \in 0..MaxItems}

\* what fetch and response.json() can give for GET /items; a message is the
\* sequence of the parts it is concatenated from
FetchOutcomes ==
    {[kind |-> "aborted"], [kind |-> "network"], [kind |-> "invalid-json"],
     [kind |-> "object"]}
    \cup {[kind |-> "not-ok", status |-> st[1], statusText |-> st[2]] :
            st \in {<<"500", "Internal Server Error">>, <<"503", "">>}}
    \cup {[kind |-> "list", data |-> l] : l \in ApiItemLists}

ApiError(message) == [class |-> "ApiError", message |-> message]

Throws(err) == [threw |-> TRUE, error |-> err]

Returns(value) == [threw |-> FALSE, value |-> value]

\* ApiService.get with fetchWithTimeout and handleResponse
ApiServiceGet(outcome) ==
    CASE outcome.kind = "aborted" -> Throws(ApiError(<<"Request timeout">>))
      [] outcome.kind = "network" -> Throws(ApiError(<<"Failed to fetch data">>))
      [] outcome.kind = "not-ok" ->
            Throws(ApiError(<<"HTTP ", outcome.status, ": ", outcome.statusText>>))
      [] outcome.kind = "invalid-json" -> Throws(ApiError(<<"Invalid JSON response">>))
      [] OTHER -> Returns(outcome)

handleError(err) ==
    IF err.class = "ApiError" THEN err.message
    ELSE IF err.class = "Error" THEN err.message
    ELSE <<"An unknown error occurred">>

transformApiItem(apiItem) ==
    [id |-> apiItem.id, title |-> apiItem.title, body |-> apiItem.body,
     createdAt |-> apiItem.createdAt]

\* fetchItems from the point where itemsService.getAll() settles: what the
\* try, catch and finally blocks leave in items, error and loading
FetchItemsSettled_clearsItems(itemsNow, errorNow, outcome) ==
    LET got == ApiServiceGet(outcome)
    IN  IF got.threw
        THEN [items |-> <<>>, error |-> <<handleError(got.error)>>, loading |-> FALSE]
        ELSE IF got.value.kind = "list"
        THEN [items |-> [i \in DOMAIN got.value.data |-> transformApiItem(got.value.data[i])],
              error |-> errorNow, loading |-> FALSE]
        ELSE [items |-> <<>>,
              error |-> <<handleError([class |-> "Error",
                                       message |-> <<"apiItems.map is not a function">>])>>,
              loading |-> FALSE]
FetchItemsSettled(itemsNow, errorNow, outcome) ==
    LET got == ApiServiceGet(outcome)
    IN  IF got.threw
        THEN [items |-> itemsNow, error |-> <<handleError(got.error)>>, loading |-> FALSE]
        ELSE IF got.value.kind = "list"
        THEN [items |-> [i \in DOMAIN got.value.data |-> transformApiItem(got.value.data[i])],
              error |-> errorNow, loading |-> FALSE]
        ELSE [items |-> itemsNow,
              error |-> <<handleError([class |-> "Error",
                                       message |-> <<"apiItems.map is not a function">>])>>,
              loading |-> FALSE]

\* fetchItems up to its await: loading = true, error = null, the request leaves
FetchItemsStart ==
    /\ uiCalls < MaxCalls
    /\ uiLoading' = TRUE
    /\ uiError' = <<>>
    /\ uiCalls' = uiCalls + 1
    /\ uiPending' = uiPending \cup {uiCalls + 1}
    /\ uiEvent' = [kind |-> "start", call |-> uiCalls + 1]
    /\ UNCHANGED uiItems

\* v-else-if="error": a string is truthy when it is not empty
Truthy(err) == err # <<>> /\ \E i \in DOMAIN err[1] : err[1][i] # ""

\* onMounted(() => { fetchItems() })
UiMount ==
    /\ ~uiMounted
    /\ uiMounted' = TRUE
    /\ FetchItemsStart
    /\ UNCHANGED <<suiteVars, catVars, capsVars, checkVars, apiVars, deployVars>>

\* the Try Again button, rendered by v-if="loading" ... v-else-if="error"; the
\* template is rendered again before the next event is handled
UiTryAgain ==
    /\ uiMounted
    /\ ~uiLoading
    /\ Truthy(uiError)
    /\ FetchItemsStart
    /\ UNCHANGED <<uiMounted, suiteVars, catVars, capsVars, checkVars, apiVars, deployVars>>

\* the Refresh button, rendered by v-if="!loading && items.length > 0"
UiRefresh_alwaysRendered ==
    /\ uiMounted
    /\ FetchItemsStart
    /\ UNCHANGED <<uiMounted, suiteVars, catVars, capsVars, checkVars, apiVars, deployVars>>
UiRefresh ==
    /\ uiMounted
    /\ ~uiLoading
    /\ Len(uiItems) > 0
    /\ FetchItemsStart
    /\ UNCHANGED <<uiMounted, suiteVars, catVars, capsVars, checkVars, apiVars, deployVars>>

\* the request of one pending call settles and its fetchItems runs to its end
UiSettle ==
    /\ \E call \in uiPending, outcome \in FetchOutcomes :
          LET after == FetchItemsSettled(uiItems, uiError, outcome)
          IN  /\ uiItems' = after.items
              /\ uiError' = after.error
              /\ uiLoading' = after.loading
              /\ uiPending' = uiPending \ {call}
              /\ uiEvent' = [kind |-> "settled", call |-> call, outcome |-> outcome]
    /\ UNCHANGED <<uiMounted, uiCalls, suiteVars, catVars, capsVars, checkVars, apiVars, deployVars>>

UiInit ==
    /\ uiMounted = FALSE
    /\ uiItems = <<>>
    /\ uiLoading = FALSE
    /\ uiError = <<>>
    /\ uiPending = {}
    /\ uiCalls = 0
    /\ uiEvent = [kind |-> "none"]
    /\ SuiteIdle
    /\ CatIdle
    /\ CapsIdle
    /\ ChecksIdle
    /\ ApiIdle
    /\ DeployIdle

UiNext ==
    \/ UiMount
    \/ UiTryAgain
    \/ UiRefresh
    \/ UiSettle

SpecUi == UiInit /\ [][UiNext]_vars

-----------------------------------------------------------------------------
(***************************************************************************)
(* Properties of the frontend                                              *)
(***************************************************************************)
\* a step in which a fetchItems call starts, and one in which a call settles
CallStarts == uiCalls' = uiCalls + 1

CallSettles == uiCalls' = uiCalls /\ uiPending' # uiPending

Fetched == uiEvent'.outcome.kind = "list"

NonEmptyMessage(err) == err # <<>> /\ \E i \in DOMAIN err[1] : Len(err[1][i]) > 0

SameItem(item, apiItem) ==
    /\ item.id = apiItem.id
    /\ item.title = apiItem.title
    /\ item.body = apiItem.body
    /\ item.createdAt = apiItem.createdAt

\* C29: loading is true from the start of fetchItems until the call settles
\* and false once it has settled; error is null at the start of each call; on
\* success items is the fetched list and error stays null; on failure error
\* is a non-empty message and items keeps its value.
C29_FetchItemsStates ==
    /\ [](uiLoading <=> uiPending # {})
    /\ [][/\ CallStarts => (uiLoading' /\ uiError' = <<>> /\ uiItems' = uiItems)
          /\ CallSettles =>
                /\ ~uiLoading'
                /\ IF Fetched
                   THEN /\ Len(uiItems') = Len(uiEvent'.outcome.data)
                        /\ \A i \in DOMAIN uiItems' :
                              SameItem(uiItems'[i], uiEvent'.outcome.data[i])
                        /\ uiError' = <<>>
                   ELSE /\ NonEmptyMessage(uiError')
                        /\ uiItems' = uiItems]_vars

\* a call failed after an earlier call had fetched items: the items are kept
C29_Witness ==
    /\ uiEvent.kind = "settled"
    /\ uiEvent.outcome.kind = "not-ok"
    /\ uiEvent.call >= 2
    /\ Len(uiItems) > 0
    /\ uiError # <<>>
    /\ ~uiLoading

\* C30: through ItemsList at most one fetchItems call is in flight: loading
\* is never false while a request is pending, and the call that settles is
\* always the one started last, so an older response never overwrites the
\* items of a newer call.
C30_OneCallInFlight ==
    /\ [](Cardinality(uiPending) <= 1)
    /\ [](uiPending # {} => uiLoading)
    /\ [][CallSettles => (uiPending = {uiCalls} /\ uiPending' = {})]_vars

\* a call started with the Refresh button settled after the call of the mount
C30_Witness ==
    /\ uiCalls >= 2
    /\ uiEvent.kind = "settled"
    /\ uiEvent.call = uiCalls
    /\ uiEvent.outcome.kind = "list"
    /\ uiPending = {}

=============================================================================
